---------------------------- MODULE Spec2Model ----------------------------
(***************************************************************************)
(* A model of the Codenames rules engine of src/codenames.py: the game     *)
(* object (CodenamesGame), the two AI policies (AISpymaster, AIGuesser)    *)
(* and the turn orchestrator (play_game).                                  *)
(*                                                                         *)
(* Words and clues are TLA+ strings; the string operations of the code     *)
(* (lower, upper, replace, slicing, substring test, set of characters)     *)
(* are defined character by character below.                               *)
(***************************************************************************)
EXTENDS Integers, Sequences, FiniteSets, TLC

VARIABLES
    \* CodenamesGame fields (codenames.py 55-65)
    words, card_types, revealed, turn, red_remaining, blue_remaining,
    game_over, winner,
    \* AIGuesser bookkeeping, per team's guesser object (codenames.py 268-269)
    recent_clue, recent_count,
    \* play_game locals (codenames.py 459-476, 541-544)
    mode, player_team, turn_count, clue, count, guess, guesses_made,
    max_guesses, turn_ended, turn_already_switched,
    \* control position of the driver, and the value the last call returned
    pc, ret,
    \* CodenamesGUI (codenames_gui.py 71-83, 112): the screen that is shown,
    \* the callbacks registered with root.after and not yet run, the field
    \* turn_in_progress, and what the game started last has shown so far
    screen, timers, turn_in_progress, trace

game_vars == <<words, card_types, revealed, turn, red_remaining,
               blue_remaining, game_over, winner>>
guesser_vars == <<recent_clue, recent_count>>
local_vars == <<mode, player_team, turn_count, clue, count, guess, guesses_made,
                max_guesses, turn_ended, turn_already_switched>>
gui_vars == <<screen, timers, turn_in_progress, trace>>
vars == <<game_vars, guesser_vars, local_vars, pc, ret, gui_vars>>

-----------------------------------------------------------------------------
(* Python values *)

\* Python's None; no word or clue can equal it (they are upper case).
None == "None"

Teams == {"RED", "BLUE"}

Range(s) == {s[i] : i \in DOMAIN s}

Min(a, b) == IF a <= b THEN a ELSE b

Max(a, b) == IF a >= b THEN a ELSE b

Abs(a) == IF a >= 0 THEN a ELSE -a

\* F(x), with x evaluated once however often F uses it.
Apply(F(_), x) == CHOOSE r \in {F(y) : y \in {x}} : TRUE

\* The concatenation of the lists ss[i], ss[i+1], ...
RECURSIVE flatten_from(_, _)
flatten_from(ss, i) ==
    IF i > Len(ss) THEN <<>> ELSE ss[i] \o flatten_from(ss, i + 1)

Flatten(ss) == Apply(LAMBDA v : flatten_from(v, 1), ss)

\* s[:n] of a list
Take(s, n) == Apply(LAMBDA v : SubSeq(v, 1, Min(n, Len(v))), s)

\* the list s with x repeated n times appended in front: [x] * n + s
Repeat(x, n) == [i \in 1..n |-> x]

-----------------------------------------------------------------------------
(* Strings *)

UpperLetters == "ABCDEFGHIJKLMNOPQRSTUVWXYZ"

LowerLetters == "abcdefghijklmnopqrstuvwxyz"

Char(s, i) == SubSeq(s, i, i)

Chars(s) == {Char(s, i) : i \in 1..Len(s)}

LetterIndex(letters, c) ==
    IF \E i \in 1..Len(letters) : Char(letters, i) = c
    THEN CHOOSE i \in 1..Len(letters) : Char(letters, i) = c
    ELSE 0

\* str.lower / str.upper on one character: letters change case, everything
\* else (the space of "NEW YORK") is kept.  The two tables hold the letters'
\* images, computed once.
lower_table ==
    [c \in Chars(UpperLetters) |-> Char(LowerLetters, LetterIndex(UpperLetters, c))]

upper_table ==
    [c \in Chars(LowerLetters) |-> Char(UpperLetters, LetterIndex(LowerLetters, c))]

lower_char(c) == IF c \in DOMAIN lower_table THEN lower_table[c] ELSE c

upper_char(c) == IF c \in DOMAIN upper_table THEN upper_table[c] ELSE c

\* str.lower and str.upper, character by character from position i on
RECURSIVE lower_from(_, _)
lower_from(s, i) ==
    IF i > Len(s) THEN ""
    ELSE lower_char(Char(s, i)) \o lower_from(s, i + 1)

lower(s) == lower_from(s, 1)

RECURSIVE upper_from(_, _)
upper_from(s, i) ==
    IF i > Len(s) THEN ""
    ELSE upper_char(Char(s, i)) \o upper_from(s, i + 1)

upper(s) == upper_from(s, 1)

\* s[:n] of a string
prefix(s, n) == SubSeq(s, 1, Min(n, Len(s)))

\* Python's `sub in s`
contains(s, sub) ==
    \E i \in 1..(Len(s) - Len(sub) + 1) : SubSeq(s, i, i + Len(sub) - 1) = sub

\* str.replace(old, new) for a non-empty old: every non-overlapping
\* occurrence, scanning from the left; replace_from is the scan from
\* position i on.
RECURSIVE replace_from(_, _, _, _)
replace_from(s, old, new, i) ==
    IF i + Len(old) - 1 > Len(s) THEN SubSeq(s, i, Len(s))
    ELSE IF SubSeq(s, i, i + Len(old) - 1) = old
         THEN new \o replace_from(s, old, new, i + Len(old))
         ELSE Char(s, i) \o replace_from(s, old, new, i + 1)

replace(s, old, new) == replace_from(s, old, new, 1)

-----------------------------------------------------------------------------
(* The lexicon, codenames.py 12-49 *)

WORD_POOL ==
  <<
    "APPLE", "BALL", "BANK", "BEACH", "BEAR", "BED", "BOOK", "BOTTLE",
    "BRIDGE", "BROTHER", "CAT", "CHINA", "CHURCH", "CIRCLE", "CLOUD", "CODE",
    "COOK", "CROSS", "CROWN", "DANCE", "DIAMOND", "DOCTOR", "DRAGON",
    "DRESS", "DRILL", "DROP", "DUCK", "EGG", "EGYPT", "ELEPHANT", "ENGINE",
    "ENGLAND", "EYE", "FACE", "FAIR", "FALL", "FAN", "FENCE", "FIELD",
    "FIGHTER", "FIGURE", "FILE", "FILM", "FIRE", "FISH", "FLUTE", "FLY",
    "FOOT", "FORCE", "FOREST", "FORK", "FRANCE", "GAME", "GAS", "GENIUS",
    "GERMANY", "GHOST", "GIANT", "GLASS", "GLOVE", "GOLD", "GRACE", "GRASS",
    "GREEN", "GROUND", "HAMMER", "HAND", "HAT", "HAWK", "HEAD", "HEART",
    "HELICOPTER", "HIMALAYAS", "HOLE", "HOLLYWOOD", "HONEY", "HORN", "HORSE",
    "HOSPITAL", "HOTEL", "ICE", "ICON", "IGLOO", "INDIA", "IRON", "IVORY",
    "JACK", "JAM", "JET", "JUPITER", "KANGAROO", "KETCHUP", "KEY", "KING",
    "KIWI", "KNIFE", "KNIGHT", "LAB", "LAP", "LASER", "LAWYER", "LEAD",
    "LEMON", "LEPRECHAUN", "LIFE", "LIGHT", "LIMOUSINE", "LINE", "LINK",
    "LION", "LITTER", "LOCH", "LOCK", "LOG", "LONDON", "LUCK", "MAIL",
    "MAMMOTH", "MAPLE", "MARCH", "MASS", "MATCH", "MERCURY", "MEXICO",
    "MICROSCOPE", "MILLIONAIRE", "MINE", "MINT", "MISSILE", "MODEL", "MOLE",
    "MOON", "MOSCOW", "MOUNT", "MOUSE", "MOUTH", "MUG", "NAIL", "NEEDLE",
    "NET", "NEW YORK", "NIGHT", "NINJA", "NOTE", "NOVEL", "NURSE", "NUT",
    "OCTOPUS", "OIL", "OLIVE", "OLYMPUS", "OPERA", "ORANGE", "ORGAN", "PALM",
    "PAN", "PANTS", "PAPER", "PARACHUTE", "PARK", "PART", "PASS", "PASTE",
    "PENGUIN", "PHOENIX", "PIANO", "PIE", "PILOT", "PIN", "PIPE", "PIRATE",
    "PISTOL", "PIT", "PITCH", "PLANE", "PLANT", "PLASTIC", "PLATE", "PLAY",
    "PLOT", "POINT", "POISON", "POLE", "POLICE", "POOL", "PORT", "POST",
    "POUND", "PRESS", "PRINCESS", "PUMPKIN", "PUPIL", "PYRAMID", "QUEEN",
    "QUILL", "RABBIT", "RACKET", "RAY", "REVOLUTION", "RING", "ROBIN",
    "ROCK", "ROME", "ROOT", "ROSE", "ROULETTE", "ROUND", "ROW", "ROYAL",
    "RUBBER", "RULE", "SATELLITE", "SATURN", "SCALE", "SCHOOL", "SCIENTIST",
    "SCORPION", "SCREEN", "SCUBA", "SEAL", "SERVER", "SHADOW", "SHAKESPEARE",
    "SHARK", "SHIP", "SHOE", "SHOP", "SHOT", "SINK", "SKATE", "SKI", "SKULL",
    "SLIP", "SLUG", "SMUGGLER", "SNOW", "SNOWMAN", "SOCK", "SOLDIER", "SOUL",
    "SPACE", "SPELL", "SPIDER", "SPIKE", "SPINE", "SPOT", "SPRING", "SPY",
    "SQUARE", "STADIUM", "STAFF", "STAMP", "STAR", "STATE", "STICK", "STOCK",
    "STORM", "STOVE", "STRAW", "STREAM", "STRIKE", "STRING", "SUB", "SUIT",
    "SUPERHERO", "SWING", "SWITCH", "TABLE", "TABLET", "TAG", "TAIL", "TAP",
    "TASTE", "THIEF", "THUMB", "TICK", "TIE", "TIGER", "TIME", "TOKYO",
    "TOOTH", "TORCH", "TOWER", "TRACK", "TRAIN", "TRIANGLE", "TRIP", "TRUNK",
    "TUBE", "TURKEY", "UNDERTAKER", "UNICORN", "VACUUM", "VAN", "VET",
    "WAKE", "WALL", "WAR", "WASHER", "WASHINGTON", "WATCH", "WATER", "WAVE",
    "WEB", "WELL", "WHALE", "WHIP", "WIND", "WITCH", "WIZARD", "WOLF",
    "WOOD", "WOOL", "WORLD", "WORM", "YARD"
  >>
-----------------------------------------------------------------------------
(* CodenamesGame *)

board_size == 5

\* The game object as one value, for the operators that read or change it.
Game ==
    [words |-> words, card_types |-> card_types, revealed |-> revealed,
     turn |-> turn, red_remaining |-> red_remaining,
     blue_remaining |-> blue_remaining, game_over |-> game_over,
     winner |-> winner]

SetGame(g) ==
    /\ words' = g.words
    /\ card_types' = g.card_types
    /\ revealed' = g.revealed
    /\ turn' = g.turn
    /\ red_remaining' = g.red_remaining
    /\ blue_remaining' = g.blue_remaining
    /\ game_over' = g.game_over
    /\ winner' = g.winner

\* CodenamesGame.__init__
NewGame ==
    [words |-> <<>>, card_types |-> [w \in {} |-> None], revealed |-> {}, turn |-> "RED",
     red_remaining |-> 9, blue_remaining |-> 8, game_over |-> FALSE,
     winner |-> None]

\* setup_board without the branch for a BLUE start (86-98): the RED-first
\* list whichever team starts.
card_assignments_red_first(first_team) ==
    Repeat("RED", 9) \o Repeat("BLUE", 8) \o Repeat("NEUTRAL", 7)
    \o Repeat("ASSASSIN", 1)

\* The role list setup_board shuffles, for the chosen starting team.
card_assignments(first_team) ==
    IF first_team = "RED"
    THEN Repeat("RED", 9) \o Repeat("BLUE", 8) \o Repeat("NEUTRAL", 7)
         \o Repeat("ASSASSIN", 1)
    ELSE Repeat("RED", 8) \o Repeat("BLUE", 9) \o Repeat("NEUTRAL", 7)
         \o Repeat("ASSASSIN", 1)

CountOf(s, x) == Cardinality({i \in DOMAIN s : s[i] = x})

\* random.shuffle(list) for the drawn order
shuffle(list, order) == [i \in DOMAIN order |-> list[order[i]]]

\* random.sample with the test for a population that is too small off by
\* one
sample_raises_at_size(population, k) == k >= Len(population)

\* random.sample(population, k) raises ValueError when the population has
\* fewer than k elements (70).
sample_raises(population, k) == k > Len(population)

\* setup_board with its three random draws as inputs: the sample of 25
\* words, the starting team and the order the shuffle produces.
setup_board(g, sample, first_team, order) ==
    LET shuffled == shuffle(card_assignments(first_team), order)
    IN
    [g EXCEPT
        !.words = sample,
        !.card_types = [w \in Range(sample) |->
                          shuffled[CHOOSE i \in DOMAIN sample : sample[i] = w]],
        !.red_remaining = CountOf(shuffled, "RED"),
        !.blue_remaining = CountOf(shuffled, "BLUE"),
        !.revealed = {},
        !.turn = first_team,
        !.game_over = FALSE,
        !.winner = None]

get_card_type(g, word) ==
    IF word \in DOMAIN g.card_types THEN g.card_types[word] ELSE "UNKNOWN"

\* reveal_card without the test for a word that is already revealed (111)
reveal_card_no_revealed_check(g, word) ==
    IF word \notin Range(g.words)
    THEN [game |-> g, success |-> FALSE, card_type |-> None]
    ELSE LET card_type == get_card_type(g, word)
             g1 == [g EXCEPT !.revealed = @ \cup {word}]
             g2 == IF card_type = "RED"
                   THEN [g1 EXCEPT !.red_remaining = @ - 1]
                   ELSE IF card_type = "BLUE"
                        THEN [g1 EXCEPT !.blue_remaining = @ - 1]
                        ELSE g1
         IN  [game |-> g2, success |-> TRUE, card_type |-> card_type]

\* reveal_card without the test for a word that is not on the board (111)
reveal_card_no_board_check(g, word) ==
    IF word \in g.revealed
    THEN [game |-> g, success |-> FALSE, card_type |-> None]
    ELSE LET card_type == get_card_type(g, word)
             g1 == [g EXCEPT !.revealed = @ \cup {word}]
             g2 == IF card_type = "RED"
                   THEN [g1 EXCEPT !.red_remaining = @ - 1]
                   ELSE IF card_type = "BLUE"
                        THEN [g1 EXCEPT !.blue_remaining = @ - 1]
                        ELSE g1
         IN  [game |-> g2, success |-> TRUE, card_type |-> card_type]

\* reveal_card that overwrites the role of the card it reveals
reveal_card_overwrites_role(g, word) ==
    IF word \notin Range(g.words) \/ word \in g.revealed
    THEN [game |-> g, success |-> FALSE, card_type |-> None]
    ELSE LET card_type == get_card_type(g, word)
             g1 == [g EXCEPT !.revealed = @ \cup {word},
                             !.card_types[word] = "REVEALED"]
             g2 == IF card_type = "RED"
                   THEN [g1 EXCEPT !.red_remaining = @ - 1]
                   ELSE IF card_type = "BLUE"
                        THEN [g1 EXCEPT !.blue_remaining = @ - 1]
                        ELSE g1
         IN  [game |-> g2, success |-> TRUE, card_type |-> card_type]

\* reveal_card that also hands the turn to the other team when it is applied
reveal_card_flips_turn(g, word) ==
    IF word \notin Range(g.words) \/ word \in g.revealed
    THEN [game |-> g, success |-> FALSE, card_type |-> None]
    ELSE LET card_type == get_card_type(g, word)
             g1 == [g EXCEPT !.revealed = @ \cup {word},
                             !.turn = IF @ = "RED" THEN "BLUE" ELSE "RED"]
             g2 == IF card_type = "RED"
                   THEN [g1 EXCEPT !.red_remaining = @ - 1]
                   ELSE IF card_type = "BLUE"
                        THEN [g1 EXCEPT !.blue_remaining = @ - 1]
                        ELSE g1
         IN  [game |-> g2, success |-> TRUE, card_type |-> card_type]

\* reveal_card: the game after the call and the returned (success, card_type)
reveal_card(g, word) ==
    IF word \notin Range(g.words) \/ word \in g.revealed
    THEN [game |-> g, success |-> FALSE, card_type |-> None]
    ELSE LET card_type == get_card_type(g, word)
             g1 == [g EXCEPT !.revealed = @ \cup {word}]
             g2 == IF card_type = "RED"
                   THEN [g1 EXCEPT !.red_remaining = @ - 1]
                   ELSE IF card_type = "BLUE"
                        THEN [g1 EXCEPT !.blue_remaining = @ - 1]
                        ELSE g1
         IN  [game |-> g2, success |-> TRUE, card_type |-> card_type]

\* check_win_condition with the two tests exchanged (129-132)
check_win_condition_blue_first(g) ==
    IF g.blue_remaining = 0 THEN "BLUE"
    ELSE IF g.red_remaining = 0 THEN "RED"
    ELSE None

check_win_condition(g) ==
    IF g.red_remaining = 0 THEN "RED"
    ELSE IF g.blue_remaining = 0 THEN "BLUE"
    ELSE None

other_team(t) == IF t = "RED" THEN "BLUE" ELSE "RED"

-----------------------------------------------------------------------------
(* AISpymaster *)

\* The association table of _get_potential_clues, in the order of the dict.
spymaster_associations ==
    << [category |-> "animal",
        words |-> <<"cat", "dog", "bear", "tiger", "lion", "elephant", "rabbit">>],
       [category |-> "body",
        words |-> <<"hand", "head", "eye", "foot", "face", "heart">>],
       [category |-> "nature",
        words |-> <<"tree", "forest", "river", "mountain", "ocean", "beach">>],
       [category |-> "building",
        words |-> <<"house", "school", "hospital", "bank", "hotel", "church">>],
       [category |-> "color",
        words |-> <<"red", "blue", "green", "yellow", "black", "white">>],
       [category |-> "food",
        words |-> <<"apple", "bread", "cake", "cheese", "meat">>],
       [category |-> "sport",
        words |-> <<"ball", "game", "player", "team", "field">>],
       [category |-> "water",
        words |-> <<"water", "ocean", "river", "lake", "beach", "fish">>],
       [category |-> "royal",
        words |-> <<"king", "queen", "crown", "royal", "prince">>],
       [category |-> "war",
        words |-> <<"soldier", "war", "gun", "battle", "army">>],
       [category |-> "space",
        words |-> <<"moon", "star", "planet", "space", "rocket">>],
       [category |-> "music",
        words |-> <<"song", "music", "piano", "note", "sound">>],
       [category |-> "time",
        words |-> <<"clock", "time", "hour", "minute", "day">>],
       [category |-> "round",
        words |-> <<"ball", "circle", "ring", "round", "wheel">>],
       [category |-> "sharp",
        words |-> <<"knife", "sword", "needle", "point", "blade">>] >>

\* _get_potential_clues: for each category holding the word, the category
\* name and its other members; then the two lexical transforms; cut to 5.
potential_clues_lower(word, word_lower) ==
    LET from_table ==
            Flatten([k \in DOMAIN spymaster_associations |->
                LET a == spymaster_associations[k]
                IN  IF word_lower \in Range(a.words)
                    THEN <<a.category>>
                         \o SelectSeq(a.words, LAMBDA w : w # word_lower)
                    ELSE <<>>])
        ing == IF Len(word) > 4 THEN <<prefix(word, 4) \o "ING">> ELSE <<>>
        er  == IF contains(word_lower, "er")
               THEN <<replace(word_lower, "er", "")>> ELSE <<>>
    IN  Take(from_table \o ing \o er, 5)

get_potential_clues(word) ==
    Apply(LAMBDA word_lower : potential_clues_lower(word, word_lower),
          lower(word))

\* The team's words without the test on revealed of line 184
team_words_with_revealed(g, team) ==
    SelectSeq(g.words, LAMBDA w : get_card_type(g, w) = team)

\* The team's unrevealed words, in board order.
team_words_of(g, team) ==
    SelectSeq(g.words,
              LAMBDA w : w \notin g.revealed /\ get_card_type(g, w) = team)

\* clue_scores as the list of (clue, word) insertions, in insertion order.
clue_insertions(team_words) ==
    Flatten([i \in DOMAIN team_words |->
        Apply(LAMBDA potential :
                [j \in DOMAIN potential |->
                    [clue |-> potential[j], word |-> team_words[i]]],
              get_potential_clues(team_words[i]))])

\* The keys of clue_scores in dict order: each clue at its first insertion.
clue_keys(ins) ==
    Apply(LAMBDA first : [k \in DOMAIN first |-> ins[first[k]].clue],
          SelectSeq([i \in DOMAIN ins |-> i],
                    LAMBDA i : \A j \in 1..(i - 1) : ins[j].clue # ins[i].clue))

associated_words(ins, c) == {ins[i].word : i \in {j \in DOMAIN ins : ins[j].clue = c}}

\* The step of the selection loop with >= for > in the test of 211: among
\* clues with the same number of words the last one is kept.
better_or_equal(g, c, unique_words, n_team, best) ==
    IF /\ upper(c) \notin Range(g.words)
       /\ unique_words >= best.count
       /\ unique_words <= n_team
    THEN [clue |-> c, count |-> unique_words]
    ELSE best

\* One step of the selection loop of generate_clue (207-213): the best clue
\* after looking at clue c, associated with unique_words distinct words.
better(g, c, unique_words, n_team, best) ==
    IF /\ upper(c) \notin Range(g.words)
       /\ unique_words > best.count
       /\ unique_words <= n_team
    THEN [clue |-> c, count |-> unique_words]
    ELSE best

\* The selection loop over clue_scores.items(), from key k on.
RECURSIVE best_from(_, _, _, _, _, _)
best_from(g, ins, keys, k, n_team, best) ==
    IF k > Len(keys) THEN best
    ELSE Apply(LAMBDA b : best_from(g, ins, keys, k + 1, n_team, b),
               Apply(LAMBDA unique_words :
                        better(g, keys[k], unique_words, n_team, best),
                     Cardinality(associated_words(ins, keys[k]))))

\* generate_clue with the count 1 in the pass for a team without words (188)
clue_for_pass_count_one(g, team_words) ==
    IF team_words = <<>> THEN [text |-> "PASS", count |-> 1]
    ELSE Apply(LAMBDA ins :
           Apply(LAMBDA keys :
             Apply(LAMBDA best :
                     IF best.clue # None /\ best.clue # "" /\ best.count > 0
                     THEN [text |-> upper(best.clue),
                           count |-> Min(best.count, Len(team_words))]
                     ELSE [text |-> team_words[1], count |-> 1],
                   best_from(g, ins, keys, 1, Len(team_words),
                             [clue |-> None, count |-> 0])),
             clue_keys(ins)),
           clue_insertions(team_words))

\* generate_clue without the fallback of 219-220: the pass of 222 instead
clue_for_without_fallback(g, team_words) ==
    IF team_words = <<>> THEN [text |-> "PASS", count |-> 0]
    ELSE Apply(LAMBDA ins :
           Apply(LAMBDA keys :
             Apply(LAMBDA best :
                     IF best.clue # None /\ best.clue # "" /\ best.count > 0
                     THEN [text |-> upper(best.clue),
                           count |-> Min(best.count, Len(team_words))]
                     ELSE [text |-> "PASS", count |-> 0],
                   best_from(g, ins, keys, 1, Len(team_words),
                             [clue |-> None, count |-> 0])),
             clue_keys(ins)),
           clue_insertions(team_words))

\* generate_clue once the team's words are collected (187-222)
clue_for(g, team_words) ==
    IF team_words = <<>> THEN [text |-> "PASS", count |-> 0]
    ELSE Apply(LAMBDA ins :
           Apply(LAMBDA keys :
             Apply(LAMBDA best :
                     IF best.clue # None /\ best.clue # "" /\ best.count > 0
                     THEN [text |-> upper(best.clue),
                           count |-> Min(best.count, Len(team_words))]
                     ELSE [text |-> team_words[1], count |-> 1],
                   best_from(g, ins, keys, 1, Len(team_words),
                             [clue |-> None, count |-> 0])),
             clue_keys(ins)),
           clue_insertions(team_words))

generate_clue(g, team) ==
    Apply(LAMBDA team_words : clue_for(g, team_words), team_words_of(g, team))

\* A call of generate_clue: the game after the call and the returned clue.
\* The method reads game.words, game.revealed and get_card_type (183-184,
\* 209) and assigns to no attribute of the game.
generate_clue_call(g, team) ==
    [game |-> g, clue |-> generate_clue(g, team)]

-----------------------------------------------------------------------------
(* AIGuesser *)

\* The association table of _score_word, in the order of the dict.
guesser_associations ==
    << [category |-> "animal",
        words |-> <<"cat", "dog", "bear", "tiger", "lion", "elephant">>],
       [category |-> "body",
        words |-> <<"hand", "head", "eye", "foot", "face">>],
       [category |-> "nature",
        words |-> <<"tree", "forest", "river", "mountain">>],
       [category |-> "water",
        words |-> <<"water", "ocean", "river", "beach", "fish">>],
       [category |-> "royal",
        words |-> <<"king", "queen", "crown", "royal">>],
       [category |-> "round",
        words |-> <<"ball", "circle", "ring", "wheel">>] >>

\* The sum of the numbers s[i], s[i+1], ...
RECURSIVE sum_from(_, _)
sum_from(s, i) == IF i > Len(s) THEN 0 ELSE s[i] + sum_from(s, i + 1)

Sum(s) == Apply(LAMBDA v : sum_from(v, 1), s)

\* _score_word without the 50 points for a member of the category the clue
\* names (340-341)
score_word_without_category(clue_lower, word) ==
    IF clue_lower = word THEN 100
    ELSE LET substring == IF contains(word, clue_lower) \/ contains(clue_lower, word)
                          THEN 30 ELSE 0
             overlap == Cardinality(Chars(clue_lower) \cap Chars(word))
             length_diff == Abs(Len(clue_lower) - Len(word))
             semantic ==
                 Sum([k \in DOMAIN guesser_associations |->
                     LET a == guesser_associations[k]
                     IN  IF word \in Range(a.words)
                            /\ clue_lower \in Range(a.words)
                         THEN 30 ELSE 0])
         IN  substring + overlap * 5 + Max(0, 10 - length_diff) + semantic

\* _score_word on a lower-cased clue and a lower-cased word
score_word(clue_lower, word) ==
    IF clue_lower = word THEN 100
    ELSE LET substring == IF contains(word, clue_lower) \/ contains(clue_lower, word)
                          THEN 30 ELSE 0
             overlap == Cardinality(Chars(clue_lower) \cap Chars(word))
             length_diff == Abs(Len(clue_lower) - Len(word))
             semantic ==
                 Sum([k \in DOMAIN guesser_associations |->
                     LET a == guesser_associations[k]
                     IN  (IF a.category = clue_lower /\ word \in Range(a.words)
                          THEN 50 ELSE 0)
                         + (IF word \in Range(a.words)
                               /\ clue_lower \in Range(a.words)
                            THEN 30 ELSE 0)])
         IN  substring + overlap * 5 + Max(0, 10 - length_diff) + semantic

\* The list of line 282 without its test on revealed: every board word
available_words_with_revealed(g) == g.words

\* The unrevealed words, in board order.
available_words(g) == SelectSeq(g.words, LAMBDA w : w \notin g.revealed)

\* The scores dict of make_guess: the score of each available word.
word_scores(available, clue_lower) ==
    [i \in DOMAIN available |->
        Apply(LAMBDA word_lower : score_word(clue_lower, word_lower),
              lower(available[i]))]

\* The first entry of the scores sorted without reverse=True (296): the first
\* word, in board order, of the lowest score.
first_of_lowest(available, scores) ==
    Apply(LAMBDA i_best : [word |-> available[i_best], score |-> scores[i_best]],
          CHOOSE i \in DOMAIN available :
              /\ \A j \in DOMAIN available : scores[j] >= scores[i]
              /\ \A j \in 1..(i - 1) : scores[j] > scores[i])

\* sorted(scores.items(), key=score, reverse=True)[0]: the sort is stable, so
\* the first word, in board order, of the highest score.
first_of_highest(available, scores) ==
    Apply(LAMBDA i_best : [word |-> available[i_best], score |-> scores[i_best]],
          CHOOSE i \in DOMAIN available :
              /\ \A j \in DOMAIN available : scores[j] <= scores[i]
              /\ \A j \in 1..(i - 1) : scores[j] < scores[i])

\* The first entry of the sorted scores, for a non-empty list of available
\* words.
best_guess(available, clue_text) ==
    Apply(LAMBDA clue_lower :
            Apply(LAMBDA scores : first_of_highest(available, scores),
                  word_scores(available, clue_lower)),
          lower(clue_text))

\* make_guess once the available words are collected (282-305)
guess_from(available, clue_text) ==
    IF available = <<>> THEN None
    ELSE Apply(LAMBDA best : IF best.score > 0 THEN best.word ELSE None,
               best_guess(available, clue_text))

\* make_guess without the test on the count (278)
make_guess_ignores_count(g, clue_text, clue_count) ==
    IF clue_text = "PASS" THEN None
    ELSE Apply(LAMBDA available : guess_from(available, clue_text),
               available_words(g))

\* make_guess: the word to guess, or None
make_guess(g, clue_text, clue_count) ==
    IF clue_text = "PASS" \/ clue_count = 0 THEN None
    ELSE Apply(LAMBDA available : guess_from(available, clue_text),
               available_words(g))

\* A call of make_guess in which the operative marks its guess as revealed
\* itself
make_guess_call_reveals(g, clue_text, clue_count) ==
    Apply(LAMBDA value :
            [game |-> IF value = None THEN g
                      ELSE [g EXCEPT !.revealed = @ \cup {value}],
             value |-> value],
          make_guess(g, clue_text, clue_count))

\* A call of make_guess: the game after the call and the returned value.
\* The method reads game.words and game.revealed (282) and assigns to its
\* own recent_clue and recent_count only (275-276).
make_guess_call(g, clue_text, clue_count) ==
    [game |-> g, value |-> make_guess(g, clue_text, clue_count)]

-----------------------------------------------------------------------------
(* Inputs *)

\* How many of the setups below a run may draw.
NumSetups == 4

\* How many of the first unrevealed words, in board order, a human operative
\* chooses among.
PlayerChoices == 1

\* How many of the first board words the direct reveal_card calls name.
MaxApiWords == 3

Board1 ==
    << "CAT", "PASS", "BEAR", "HAND", "TRAIN",
       "TIGER", "HEAD", "KING", "BANK", "QUEEN",
       "LION", "EYE", "MOON", "HOTEL", "STAR",
       "WATER", "FISH", "CROWN", "BALL", "RING",
       "APPLE", "NOTE", "PIANO", "SPIDER", "WIZARD" >>

Board2 ==
    << "BED", "BOOK", "CODE", "COOK", "DROP",
       "DUCK", "EGG", "FAIR", "FALL", "FAN",
       "WASHER", "FILM", "FIRE", "FLY", "FORK",
       "GAS", "GOLD", "HAT", "HAWK", "HOLE",
       "HORN", "ICE", "PASTE", "IRON", "NEW YORK" >>

\* The outcomes of setup_board's random draws that a run may draw: the
\* sample, the starting team, and the shuffle, written as the position in
\* the role list that each board position receives.
Setups ==
    << [sample |-> Board1, first_team |-> "RED",
        order |-> <<10, 1, 2, 18, 11, 19, 3, 12, 4, 13, 20, 14, 25,
                    15, 21, 5, 6, 7, 16, 8, 22, 23, 24, 9, 17>>],
       [sample |-> Board2, first_team |-> "BLUE",
        order |-> <<9, 18, 1, 19, 20, 10, 2, 25, 11, 3, 12, 4, 21,
                    13, 14, 22, 15, 5, 23, 6, 7, 24, 16, 8, 17>>],
       [sample |-> Board1, first_team |-> "BLUE",
        order |-> <<1, 2, 9, 10, 11, 12, 13, 14, 15, 18, 3, 4, 5,
                    16, 6, 25, 19, 17, 20, 21, 7, 22, 23, 24, 8>>],
       [sample |-> Board2, first_team |-> "RED",
        order |-> <<18, 25, 19, 10, 1, 20, 2, 11, 21, 22, 3, 4, 12,
                    13, 5, 14, 15, 16, 6, 7, 23, 8, 24, 9, 17>>],
       [sample |-> Board1, first_team |-> "RED",
        order |-> <<1, 2, 3, 4, 5, 10, 11, 12, 13, 18, 19, 20, 25,
                    6, 7, 8, 9, 14, 15, 16, 17, 21, 22, 23, 24>>] >>

\* random.sample(WORD_POOL, 25): 25 distinct words of the pool
IsSample(sample) ==
    /\ Len(sample) = board_size * board_size
    /\ Range(sample) \subseteq Range(WORD_POOL)
    /\ Cardinality(Range(sample)) = Len(sample)

\* random.shuffle: the same elements, in another order
IsPermutation(order, n) ==
    /\ Len(order) = n
    /\ Range(order) = 1..n

SetupChoices ==
    {k \in 1..Min(NumSetups, Len(Setups)) :
        /\ IsSample(Setups[k].sample)
        /\ IsPermutation(Setups[k].order, board_size * board_size)}

\* A board on which RED's words BALL and RING share the spymaster's category
\* "round", and on which GROUND contains the operative's category name
\* "round"; RED starts.
Board3 ==
    << "BALL", "RING", "GROUND", "BOOK", "CODE",
       "COOK", "DROP", "DUCK", "EGG", "FAIR",
       "FALL", "FAN", "WASHER", "FILM", "FIRE",
       "FLY", "FORK", "GAS", "GOLD", "HAT",
       "HAWK", "HOLE", "HORN", "ICE", "IRON" >>

\* The outcomes of setup_board's draws that the direct calls add to those of
\* Setups.
ApiSetups ==
    << [sample |-> Board3, first_team |-> "RED",
        order |-> <<1, 2, 18, 3, 4, 5, 6, 7, 8, 9, 10, 11, 12,
                    13, 14, 15, 16, 17, 19, 20, 21, 22, 23, 24, 25>>] >>

ApiSetupChoices ==
    {Setups[k] : k \in SetupChoices}
    \cup {d \in Range(ApiSetups) :
            /\ IsSample(d.sample)
            /\ IsPermutation(d.order, board_size * board_size)}

\* The word lists setup_board is run over in the direct calls, as the value
\* of WORD_POOL: the pool itself, a list of exactly 25 words, lists that are
\* too short.
ApiLexicons ==
    {WORD_POOL, Board1, Take(Board1, board_size * board_size - 1), <<>>}

\* The draws of the direct calls whose sample is taken from the lexicon
samples_of(lexicon) ==
    {d \in ApiSetupChoices : Range(d.sample) \subseteq Range(lexicon)}

\* What a human spymaster types, before strip().upper(), and the counts.
PlayerClueInputs == {"animal", "xxxxxxxxxxxxxxxxxxxx", "pass", "cat"}

PlayerCountInputs == {1, 9}

\* Clues and counts of the direct make_guess calls.
ApiClues == {"PASS", "ANIMAL", "ROUND"}

ApiCounts == {0, 2}

\* The (clue, count) pairs of the direct make_guess calls
ApiGuessInputs ==
    {p \in ApiClues \X ApiCounts : ~(p[1] = "PASS" /\ p[2] = 0)}

\* A word of the pool that is on neither board, and a word outside the pool.
OffBoardWords == {"YARD", "ZEBRA"}

-----------------------------------------------------------------------------
(* Initial state: a constructed game, nothing called yet *)

NoReturn == [op |-> "none"]

\* The two callbacks that the GUI registers with root.after
Callbacks == {"process_turn", "ai_guesser_turn"}

Init ==
    /\ words = NewGame.words
    /\ card_types = NewGame.card_types
    /\ revealed = NewGame.revealed
    /\ turn = NewGame.turn
    /\ red_remaining = NewGame.red_remaining
    /\ blue_remaining = NewGame.blue_remaining
    /\ game_over = NewGame.game_over
    /\ winner = NewGame.winner
    /\ recent_clue = [t \in Teams |-> None]
    /\ recent_count = [t \in Teams |-> 0]
    /\ mode = 0
    /\ player_team = None
    /\ turn_count = 0
    /\ clue = None
    /\ count = 0
    /\ guess = None
    /\ guesses_made = 0
    /\ max_guesses = 0
    /\ turn_ended = FALSE
    /\ turn_already_switched = FALSE
    /\ pc = "new"
    /\ ret = NoReturn
    /\ screen = "menu"
    /\ timers = [cb \in Callbacks |-> 0]
    /\ turn_in_progress = FALSE
    /\ trace = <<>>

-----------------------------------------------------------------------------
(* Direct calls on the objects, as test_smoke.py makes them *)

ApiSetup ==
    /\ pc = "new"
    /\ \E lexicon \in ApiLexicons :
          IF sample_raises(lexicon, board_size * board_size)
          THEN /\ ret' = [op |-> "setup_board", lexicon_size |-> Len(lexicon),
                          raised |-> "ValueError"]
               /\ UNCHANGED <<game_vars, pc>>
          ELSE \E d \in samples_of(lexicon) :
                  /\ SetGame(setup_board(Game, d.sample, d.first_team, d.order))
                  /\ pc' = "api"
                  /\ ret' = [op |-> "setup_board",
                             lexicon_size |-> Len(lexicon), raised |-> None]
    /\ UNCHANGED gui_vars
    /\ UNCHANGED <<guesser_vars, local_vars>>

\* The words the direct reveal_card calls name: the first board words
\* (revealed or not), the first unrevealed word, and words not on the board.
ApiRevealArgs ==
    Range(Take(words, MaxApiWords)) \cup Range(Take(available_words(Game), 1))
    \cup OffBoardWords

ApiReveal ==
    /\ pc = "api"
    /\ \E word \in ApiRevealArgs :
          \E r \in {reveal_card(Game, word)} :
              /\ SetGame(r.game)
              /\ ret' = [op |-> "reveal_card", arg |-> word,
                         success |-> r.success, card_type |-> r.card_type]
    /\ UNCHANGED gui_vars
    /\ UNCHANGED <<guesser_vars, local_vars, pc>>

ApiCheckWin ==
    /\ pc = "api"
    /\ ret' = [op |-> "check_win_condition", value |-> check_win_condition(Game)]
    /\ UNCHANGED gui_vars
    /\ UNCHANGED <<game_vars, guesser_vars, local_vars, pc>>

ApiGenerateClue ==
    /\ pc = "api"
    /\ \E team \in Teams :
          \E r \in {generate_clue_call(Game, team)} :
              /\ SetGame(r.game)
              /\ ret' = [op |-> "generate_clue", team |-> team,
                         text |-> r.clue.text, count |-> r.clue.count]
    /\ UNCHANGED gui_vars
    /\ UNCHANGED <<guesser_vars, local_vars, pc>>

\* test_smoke.py creates the guesser of the team to act
ApiMakeGuess ==
    /\ pc = "api"
    /\ \E p \in ApiGuessInputs :
          \E r \in {make_guess_call(Game, p[1], p[2])} :
              /\ SetGame(r.game)
              /\ recent_clue' = [recent_clue EXCEPT ![turn] = p[1]]
              /\ recent_count' = [recent_count EXCEPT ![turn] = p[2]]
              /\ ret' = [op |-> "make_guess", clue |-> p[1], count |-> p[2],
                         value |-> r.value]
    /\ UNCHANGED gui_vars
    /\ UNCHANGED <<local_vars, pc>>

\* The caller's win check, as play_game makes it after a reveal (580-583):
\* a winner reported by check_win_condition is stored with game_over.
ApiDeclareWinner ==
    /\ pc = "api"
    /\ ~game_over
    /\ check_win_condition(Game) # None
    /\ game_over' = TRUE
    /\ winner' = check_win_condition(Game)
    /\ ret' = [op |-> "declare_winner"]
    /\ UNCHANGED gui_vars
    /\ UNCHANGED <<words, card_types, revealed, turn, red_remaining,
                   blue_remaining, guesser_vars, local_vars, pc>>

NextApi ==
    \/ ApiSetup
    \/ ApiReveal
    \/ ApiCheckWin
    \/ ApiGenerateClue
    \/ ApiMakeGuess
    \/ ApiDeclareWinner

SpecApi == Init /\ [][NextApi]_vars

-----------------------------------------------------------------------------
(* play_game *)

max_turns == 50

\* player_input_clue prompts again for a clue that is a board word (402-405).
clue_rejected(g, typed) ==
    upper(typed) # "PASS" /\ upper(typed) \in Range(g.words)

\* player_input_clue: what the prompt loop returns for an accepted clue and
\* a count.
player_input_clue(g, typed, n) ==
    LET clue_input == upper(typed)
    IN  IF clue_input = "PASS" THEN [text |-> "PASS", count |-> 0]
        ELSE [text |-> clue_input, count |-> n]

\* The clues a human spymaster can end up giving: a rejected input is typed
\* again, and end of input gives the pass.
player_clues(g) ==
    {player_input_clue(g, typed, n) :
        typed \in {t \in PlayerClueInputs : ~clue_rejected(g, t)},
        n \in PlayerCountInputs}

\* player_input_guess returns None (PASS, empty line, end of input) or a
\* board word that is not revealed; any other input is asked again.  The
\* board word "PASS" cannot be chosen: typing it is the pass (439-440).
player_guesses(g) ==
    {None} \cup Range(Take(SelectSeq(available_words(g),
                                     LAMBDA w : w # "PASS"),
                           PlayerChoices))

\* The end of a turn without the test of turn_already_switched (613)
end_of_turn_ignores_switched(g, ended, switched) ==
    IF ~g.game_over /\ ended
    THEN [g EXCEPT !.turn = other_team(g.turn)]
    ELSE g

\* The end of a turn without the switch of lines 613-614
end_of_turn_without_switch(g, ended, switched) == g

\* The end of a turn in play_game, after the guessing loop (611-614): the
\* game after the turn switch, if one is due.
end_of_turn(g, ended, switched) ==
    IF ~g.game_over /\ ended /\ ~switched
    THEN [g EXCEPT !.turn = other_team(g.turn)]
    ELSE g

\* The outer loop with <= for < (501)
outer_loop_one_more(g, n) == ~g.game_over /\ n <= max_turns

\* The outer loop without its test of game_over (501)
outer_loop_ignores_game_over(g, n) == n < max_turns

\* The condition of the outer loop (501)
outer_loop_continues(g, n) == ~g.game_over /\ n < max_turns

\* play_game up to its loop, for the modes that get_mode_selection may
\* return: mode selection, setup, team selection (459-476)
StartIn(modes, deals) ==
    /\ pc = "new"
    /\ \E m \in modes, d \in deals, t \in Teams :
          /\ mode' = m
          /\ SetGame(setup_board(Game, d.sample, d.first_team, d.order))
          /\ player_team' = IF m \in {2, 3} THEN t ELSE None
          /\ m = 1 => t = "RED"
    /\ turn_count' = 0
    /\ pc' = "turn"
    /\ UNCHANGED gui_vars
    /\ UNCHANGED <<guesser_vars, clue, count, guess, guesses_made, max_guesses,
                   turn_ended, turn_already_switched, ret>>

Start == StartIn({1, 2, 3}, {Setups[k] : k \in SetupChoices})

\* One pass of the outer loop up to the guessing loop (501-549): the clue,
\* and either the forfeit of the turn or the start of the guessing.
BeginTurn ==
    /\ pc = "turn"
    /\ outer_loop_continues(Game, turn_count)
    /\ turn_count' = turn_count + 1
    /\ \E c \in (IF mode = 3 /\ turn = player_team
                 THEN player_clues(Game)
                 ELSE {generate_clue(Game, turn)}) :
          /\ clue' = c.text
          /\ count' = c.count
          /\ IF c.text = "PASS"
             THEN /\ turn' = other_team(turn)
                  /\ pc' = "turn"
                  /\ UNCHANGED <<guesses_made, max_guesses, turn_ended,
                                 turn_already_switched>>
             ELSE /\ guesses_made' = 0
                  /\ max_guesses' = c.count + 1
                  /\ turn_ended' = FALSE
                  /\ turn_already_switched' = FALSE
                  /\ turn' = turn
                  /\ pc' = IF 0 < c.count + 1 THEN "guess" ELSE "turn"
    /\ UNCHANGED gui_vars
    /\ UNCHANGED <<words, card_types, revealed, red_remaining, blue_remaining,
                   game_over, winner, guesser_vars, mode, player_team, guess,
                   ret>>

\* The loop body without the assassin branch (591-597): the assassin is a
\* miss like any other.
guess_body_assassin_as_miss(g, word, made, cap) ==
    LET r == reveal_card(g, word)
        g1 == r.game
        win == check_win_condition(g1)
    IN  IF word = None \/ ~r.success
        THEN [game |-> g, guesses_made |-> made, turn_ended |-> TRUE,
              turn_already_switched |-> FALSE, break |-> TRUE]
        ELSE IF win # None
        THEN [game |-> [g1 EXCEPT !.game_over = TRUE, !.winner = win],
              guesses_made |-> made + 1, turn_ended |-> FALSE,
              turn_already_switched |-> FALSE, break |-> TRUE]
        ELSE IF r.card_type # g1.turn
        THEN [game |-> [g1 EXCEPT !.turn = other_team(g1.turn)],
              guesses_made |-> made + 1, turn_ended |-> TRUE,
              turn_already_switched |-> TRUE, break |-> TRUE]
        ELSE [game |-> g1, guesses_made |-> made + 1,
              turn_ended |-> (made + 1 >= cap),
              turn_already_switched |-> FALSE, break |-> FALSE]

\* The loop body with the win check (580-587) after the miss rule (590-604)
guess_body_miss_before_win(g, word, made, cap) ==
    LET r == reveal_card(g, word)
        g1 == r.game
        win == check_win_condition(g1)
    IN  IF word = None \/ ~r.success
        THEN [game |-> g, guesses_made |-> made, turn_ended |-> TRUE,
              turn_already_switched |-> FALSE, break |-> TRUE]
        ELSE IF r.card_type # g1.turn /\ r.card_type = "ASSASSIN"
        THEN [game |-> [g1 EXCEPT !.game_over = TRUE,
                                  !.winner = other_team(g1.turn)],
              guesses_made |-> made + 1, turn_ended |-> FALSE,
              turn_already_switched |-> FALSE, break |-> TRUE]
        ELSE IF r.card_type # g1.turn
        THEN [game |-> [g1 EXCEPT !.turn = other_team(g1.turn)],
              guesses_made |-> made + 1, turn_ended |-> TRUE,
              turn_already_switched |-> TRUE, break |-> TRUE]
        ELSE IF win # None
        THEN [game |-> [g1 EXCEPT !.game_over = TRUE, !.winner = win],
              guesses_made |-> made + 1, turn_ended |-> FALSE,
              turn_already_switched |-> FALSE, break |-> TRUE]
        ELSE [game |-> g1, guesses_made |-> made + 1,
              turn_ended |-> (made + 1 >= cap),
              turn_already_switched |-> FALSE, break |-> FALSE]

\* The loop body with > for >= in the test of the guess cap (607)
guess_body_cap_off_by_one(g, word, made, cap) ==
    LET r == reveal_card(g, word)
        g1 == r.game
        win == check_win_condition(g1)
    IN  IF word = None \/ ~r.success
        THEN [game |-> g, guesses_made |-> made, turn_ended |-> TRUE,
              turn_already_switched |-> FALSE, break |-> TRUE]
        ELSE IF win # None
        THEN [game |-> [g1 EXCEPT !.game_over = TRUE, !.winner = win],
              guesses_made |-> made + 1, turn_ended |-> FALSE,
              turn_already_switched |-> FALSE, break |-> TRUE]
        ELSE IF r.card_type # g1.turn /\ r.card_type = "ASSASSIN"
        THEN [game |-> [g1 EXCEPT !.game_over = TRUE,
                                  !.winner = other_team(g1.turn)],
              guesses_made |-> made + 1, turn_ended |-> FALSE,
              turn_already_switched |-> FALSE, break |-> TRUE]
        ELSE IF r.card_type # g1.turn
        THEN [game |-> [g1 EXCEPT !.turn = other_team(g1.turn)],
              guesses_made |-> made + 1, turn_ended |-> TRUE,
              turn_already_switched |-> TRUE, break |-> TRUE]
        ELSE [game |-> g1, guesses_made |-> made + 1,
              turn_ended |-> (made + 1 > cap),
              turn_already_switched |-> FALSE, break |-> FALSE]

\* The body of the guessing loop with line 572 placed before the test of
\* line 567: a refused guess is counted.
guess_body_counts_refused(g, word, made, cap) ==
    LET r == reveal_card(g, word)
        g1 == r.game
        win == check_win_condition(g1)
    IN  IF word = None \/ ~r.success
        THEN [game |-> g,
              guesses_made |-> IF word = None THEN made ELSE made + 1,
              turn_ended |-> TRUE,
              turn_already_switched |-> FALSE, break |-> TRUE]
        ELSE IF win # None
        THEN [game |-> [g1 EXCEPT !.game_over = TRUE, !.winner = win],
              guesses_made |-> made + 1, turn_ended |-> FALSE,
              turn_already_switched |-> FALSE, break |-> TRUE]
        ELSE IF r.card_type # g1.turn /\ r.card_type = "ASSASSIN"
        THEN [game |-> [g1 EXCEPT !.game_over = TRUE,
                                  !.winner = other_team(g1.turn)],
              guesses_made |-> made + 1, turn_ended |-> FALSE,
              turn_already_switched |-> FALSE, break |-> TRUE]
        ELSE IF r.card_type # g1.turn
        THEN [game |-> [g1 EXCEPT !.turn = other_team(g1.turn)],
              guesses_made |-> made + 1, turn_ended |-> TRUE,
              turn_already_switched |-> TRUE, break |-> TRUE]
        ELSE [game |-> g1, guesses_made |-> made + 1,
              turn_ended |-> (made + 1 >= cap),
              turn_already_switched |-> FALSE, break |-> FALSE]

\* The body of the guessing loop in which a card of the acting team ends
\* the turn like a miss (599-604 without its test)
guess_body_own_card_ends_turn(g, word, made, cap) ==
    LET r == reveal_card(g, word)
        g1 == r.game
        win == check_win_condition(g1)
    IN  IF word = None \/ ~r.success
        THEN [game |-> g, guesses_made |-> made, turn_ended |-> TRUE,
              turn_already_switched |-> FALSE, break |-> TRUE]
        ELSE IF win # None
        THEN [game |-> [g1 EXCEPT !.game_over = TRUE, !.winner = win],
              guesses_made |-> made + 1, turn_ended |-> FALSE,
              turn_already_switched |-> FALSE, break |-> TRUE]
        ELSE IF r.card_type # g1.turn /\ r.card_type = "ASSASSIN"
        THEN [game |-> [g1 EXCEPT !.game_over = TRUE,
                                  !.winner = other_team(g1.turn)],
              guesses_made |-> made + 1, turn_ended |-> FALSE,
              turn_already_switched |-> FALSE, break |-> TRUE]
        ELSE IF r.card_type # g1.turn
        THEN [game |-> [g1 EXCEPT !.turn = other_team(g1.turn)],
              guesses_made |-> made + 1, turn_ended |-> TRUE,
              turn_already_switched |-> TRUE, break |-> TRUE]
        ELSE [game |-> g1, guesses_made |-> made + 1,
              turn_ended |-> TRUE,
              turn_already_switched |-> FALSE, break |-> TRUE]

\* The body of the guessing loop in which the ASSASSIN ends the game without
\* naming the winner (595 left out)
guess_body_assassin_without_winner(g, word, made, cap) ==
    LET r == reveal_card(g, word)
        g1 == r.game
        win == check_win_condition(g1)
    IN  IF word = None \/ ~r.success
        THEN [game |-> g, guesses_made |-> made, turn_ended |-> TRUE,
              turn_already_switched |-> FALSE, break |-> TRUE]
        ELSE IF win # None
        THEN [game |-> [g1 EXCEPT !.game_over = TRUE, !.winner = win],
              guesses_made |-> made + 1, turn_ended |-> FALSE,
              turn_already_switched |-> FALSE, break |-> TRUE]
        ELSE IF r.card_type # g1.turn /\ r.card_type = "ASSASSIN"
        THEN [game |-> [g1 EXCEPT !.game_over = TRUE],
              guesses_made |-> made + 1, turn_ended |-> FALSE,
              turn_already_switched |-> FALSE, break |-> TRUE]
        ELSE IF r.card_type # g1.turn
        THEN [game |-> [g1 EXCEPT !.turn = other_team(g1.turn)],
              guesses_made |-> made + 1, turn_ended |-> TRUE,
              turn_already_switched |-> TRUE, break |-> TRUE]
        ELSE [game |-> g1, guesses_made |-> made + 1,
              turn_ended |-> (made + 1 >= cap),
              turn_already_switched |-> FALSE, break |-> FALSE]

\* The body of the guessing loop after a guess was obtained (565-609): the
\* game and the loop's locals after it, and whether the loop was left by break.
guess_body(g, word, made, cap) ==
    LET r == reveal_card(g, word)
        g1 == r.game
        win == check_win_condition(g1)
    IN  IF word = None \/ ~r.success
        THEN [game |-> g, guesses_made |-> made, turn_ended |-> TRUE,
              turn_already_switched |-> FALSE, break |-> TRUE]
        ELSE IF win # None
        THEN [game |-> [g1 EXCEPT !.game_over = TRUE, !.winner = win],
              guesses_made |-> made + 1, turn_ended |-> FALSE,
              turn_already_switched |-> FALSE, break |-> TRUE]
        ELSE IF r.card_type # g1.turn /\ r.card_type = "ASSASSIN"
        THEN [game |-> [g1 EXCEPT !.game_over = TRUE,
                                  !.winner = other_team(g1.turn)],
              guesses_made |-> made + 1, turn_ended |-> FALSE,
              turn_already_switched |-> FALSE, break |-> TRUE]
        ELSE IF r.card_type # g1.turn
        THEN [game |-> [g1 EXCEPT !.turn = other_team(g1.turn)],
              guesses_made |-> made + 1, turn_ended |-> TRUE,
              turn_already_switched |-> TRUE, break |-> TRUE]
        ELSE [game |-> g1, guesses_made |-> made + 1,
              turn_ended |-> (made + 1 >= cap),
              turn_already_switched |-> FALSE, break |-> FALSE]

\* Whether the guessing loop runs another pass (549), after a pass that was
\* not left by break.
guessing_continues(b, cap) ==
    /\ ~b.break
    /\ b.guesses_made < cap
    /\ ~b.game.game_over
    /\ ~b.turn_ended

\* One pass of the guessing loop (549-609) for the guess the operative gave
\* and, when the loop is left, the end of the turn (611-614).
GuessStep(human, word) ==
    \E b \in {guess_body(Game, word, guesses_made, max_guesses)} :
    \E again \in {guessing_continues(b, max_guesses)} :
       /\ guess' = word
       /\ guesses_made' = b.guesses_made
       /\ turn_ended' = b.turn_ended
       /\ turn_already_switched' = b.turn_already_switched
       /\ SetGame(IF again THEN b.game
                  ELSE end_of_turn(b.game, b.turn_ended,
                                   b.turn_already_switched))
       /\ pc' = IF again THEN "guess" ELSE "turn"
       /\ IF human THEN UNCHANGED guesser_vars
          ELSE /\ recent_clue' = [recent_clue EXCEPT ![turn] = clue]
               /\ recent_count' = [recent_count EXCEPT ![turn] = count]
       /\ UNCHANGED gui_vars
       /\ UNCHANGED <<mode, player_team, turn_count, clue, count,
                      max_guesses, ret>>

\* The guessing loop with the operative of the game: the human in mode 2 on
\* the player's turn (550-556), the team's AIGuesser otherwise (557-563).
Guess ==
    /\ pc = "guess"
    /\ \E human \in {mode = 2 /\ turn = player_team} :
       \E word \in (IF human THEN player_guesses(Game)
                    ELSE {make_guess(Game, clue, count)}) :
          GuessStep(human, word)

\* The outer loop is left: the final board and the outcome (625-632).
Finish ==
    /\ pc = "turn"
    /\ ~outer_loop_continues(Game, turn_count)
    /\ pc' = "done"
    /\ UNCHANGED gui_vars
    /\ UNCHANGED <<game_vars, guesser_vars, local_vars, ret>>

Next == Start \/ BeginTurn \/ Guess \/ Finish

Spec == Init /\ [][Next]_vars

-----------------------------------------------------------------------------
(* play_game with any operative *)

\* The answers of an operative that is not held to the board: the pass, the
\* first unrevealed word, the first revealed word, and words off the board.
any_guesses(g) ==
    {None}
    \cup Range(Take(available_words(g), 1))
    \cup Range(Take(SelectSeq(g.words, LAMBDA w : w \in g.revealed), 1))
    \cup OffBoardWords

\* The guessing loop (549-614) with such an operative in the place of
\* player_input_guess and AIGuesser.make_guess.
GuessAny ==
    /\ pc = "guess"
    /\ \E word \in any_guesses(Game) : GuessStep(TRUE, word)

\* A further outcome of setup_board's draws for these games: the last three
\* board positions hold a RED card, a BLUE card and the ASSASSIN.
LateAssassinSetups ==
    << [sample |-> Board1, first_team |-> "RED",
        order |-> <<1, 2, 3, 4, 5, 6, 7, 8, 10, 11, 12, 13, 14,
                    15, 16, 18, 19, 20, 21, 22, 23, 24, 9, 17, 25>>] >>

AnyOperativeSetupChoices ==
    {Setups[k] : k \in SetupChoices}
    \cup {d \in Range(LateAssassinSetups) :
            /\ IsSample(d.sample)
            /\ IsPermutation(d.order, board_size * board_size)}

\* The game of two AI spymasters (mode 1) with such operatives
StartAnyOperative == StartIn({1}, AnyOperativeSetupChoices)

NextAnyOperative == StartAnyOperative \/ BeginTurn \/ GuessAny \/ Finish

SpecAnyOperative == Init /\ [][NextAnyOperative]_vars

-----------------------------------------------------------------------------
(* The GUI: CodenamesGUI of codenames_gui.py, watching the game of two AIs *)

\* How many callbacks may be registered with root.after and not yet run.
MaxPending == 2

\* The modes the user picks in the menu: AI vs AI.
GuiModes == {1}

\* The outcomes of setup_board's draws in start_game
GuiDeals == {Setups[k] : k \in SetupChoices}

\* root.after(ms, callback): one more registered call of the callback.  The
\* delays are left out: any registered callback may be the next to run.
after(t, callback) == [t EXCEPT ![callback] = @ + 1]

\* The callback that runs is no longer registered
fired(t, callback) == [t EXCEPT ![callback] = @ - 1]

pending(t) == t["process_turn"] + t["ai_guesser_turn"]

\* What a watcher sees between two states of a game: the card that was
\* revealed, the flip of turn, and the end of the game with its winner.
Observed(g, g2) ==
    (IF g2.revealed # g.revealed
     THEN << [kind |-> "reveal",
              value |-> CHOOSE w \in g2.revealed \ g.revealed : TRUE] >>
     ELSE << >>)
    \o (IF g2.turn # g.turn
        THEN << [kind |-> "turn", value |-> g2.turn] >>
        ELSE << >>)
    \o (IF g2.game_over # g.game_over \/ g2.winner # g.winner
        THEN << [kind |-> "over", game_over |-> g2.game_over,
                 value |-> g2.winner] >>
        ELSE << >>)

\* The fields a callback leaves, the callback it registers (None: none) and
\* whether it ends in show_menu.
GuiResult(g, c, n, made, cap, in_progress, word, next, menu) ==
    [game |-> g, clue |-> c, count |-> n, guesses_made |-> made,
     max_guesses |-> cap, turn_in_progress |-> in_progress, guess |-> word,
     next |-> next, menu |-> menu]

\* process_turn (834-900) in mode 1.  When the menu is shown the widgets of
\* the board are destroyed, and the first call of a widget method raises
\* TclError, which ends the callback: clue_label.config (856) or, through
\* add_history_entry, history_text.config (871).
process_turn(g, c, n, made, cap, in_progress, shown) ==
    IF g.game_over
    THEN GuiResult(g, c, n, made, cap, in_progress, None, None, FALSE)
    ELSE Apply(LAMBDA new :
            IF new.text = "PASS"
            THEN IF shown = "menu"
                 THEN GuiResult(g, c, n, made, cap, in_progress, None, None,
                                FALSE)
                 ELSE GuiResult([g EXCEPT !.turn = other_team(g.turn)],
                                c, n, made, cap, in_progress, None,
                                "process_turn", FALSE)
            ELSE GuiResult(g, new.text, new.count, 0, new.count + 1, TRUE,
                           None,
                           IF shown = "menu" THEN None ELSE "ai_guesser_turn",
                           FALSE),
            generate_clue(g, g.turn))

\* The end of the operative's turn in ai_guesser_turn (909-914, 927-933,
\* 983-988): clue_label.config raises TclError when the menu is shown, after
\* the flip of turn.
gui_turn_over(g, c, n, made, cap, word, shown) ==
    GuiResult([g EXCEPT !.turn = other_team(g.turn)], c, n, made, cap, FALSE,
              word, IF shown = "menu" THEN None ELSE "process_turn", FALSE)

\* ai_guesser_turn after an applied reveal (943-991).  update_display (946)
\* raises TclError when the menu is shown.
gui_after_reveal(g, g1, card_type, c, n, made, cap, word, shown) ==
    IF shown = "menu"
    THEN GuiResult(g1, c, n, made + 1, cap, TRUE, word, None, FALSE)
    ELSE IF check_win_condition(g1) # None
    THEN GuiResult([g1 EXCEPT !.game_over = TRUE,
                              !.winner = check_win_condition(g1)],
                   c, n, made + 1, cap, TRUE, word, None, TRUE)
    ELSE IF card_type = "ASSASSIN"
    THEN GuiResult([g1 EXCEPT !.game_over = TRUE,
                              !.winner = other_team(g.turn)],
                   c, n, made + 1, cap, TRUE, word, None, TRUE)
    ELSE IF card_type # g.turn
    THEN gui_turn_over(g1, c, n, made + 1, cap, word, shown)
    ELSE GuiResult(g1, c, n, made + 1, cap, TRUE, word, "ai_guesser_turn",
                   FALSE)

\* ai_guesser_turn (902-991).  A guess that reveal_card refuses makes the
\* callback call itself (940) with nothing changed: the recursion ends in
\* RecursionError.
ai_guesser_turn(g, c, n, made, cap, in_progress, shown) ==
    IF g.game_over \/ ~in_progress
    THEN GuiResult(g, c, n, made, cap, in_progress, None, None, FALSE)
    ELSE IF made >= cap
    THEN gui_turn_over(g, c, n, made, cap, None, shown)
    ELSE Apply(LAMBDA word :
            IF word = None
            THEN gui_turn_over(g, c, n, made, cap, None, shown)
            ELSE Apply(LAMBDA r :
                    IF ~r.success
                    THEN GuiResult(g, c, n, made, cap, in_progress, word,
                                   None, FALSE)
                    ELSE gui_after_reveal(g, r.game, r.card_type, c, n, made,
                                          cap, word, shown),
                    reveal_card(g, word)),
            make_guess(g, c, n))

\* The state after a callback has run
GuiApply(callback, r) ==
    /\ SetGame(r.game)
    /\ clue' = r.clue
    /\ count' = r.count
    /\ guesses_made' = r.guesses_made
    /\ max_guesses' = r.max_guesses
    /\ turn_in_progress' = r.turn_in_progress
    /\ guess' = r.guess
    /\ timers' = IF r.next = None THEN fired(timers, callback)
                 ELSE after(fired(timers, callback), r.next)
    /\ screen' = IF r.menu THEN "menu" ELSE screen
    /\ trace' = trace \o Observed(Game, r.game)

\* start_game (183-229) from a button of the menu, in mode 1: a new game and
\* new AI players, the board is shown, process_turn is registered.  The
\* fields of the turn (current_clue, current_count, guesses_made,
\* max_guesses, turn_in_progress) and the registered callbacks are left.
GuiStartGame ==
    /\ pc \in {"new", "gui"}
    /\ screen = "menu"
    /\ pending(timers) < MaxPending
    /\ \E m \in GuiModes, d \in GuiDeals :
          /\ mode' = m
          /\ SetGame(setup_board(NewGame, d.sample, d.first_team, d.order))
    /\ player_team' = None
    /\ recent_clue' = [t \in Teams |-> None]
    /\ recent_count' = [t \in Teams |-> 0]
    /\ screen' = "board"
    /\ timers' = after(timers, "process_turn")
    /\ trace' = << >>
    /\ pc' = "gui"
    /\ UNCHANGED <<turn_count, clue, count, guess, guesses_made, max_guesses,
                   turn_ended, turn_already_switched, turn_in_progress, ret>>

\* The Main Menu button (505-517): show_menu (114-181)
GuiMainMenu ==
    /\ pc = "gui"
    /\ screen = "board"
    /\ screen' = "menu"
    /\ UNCHANGED <<game_vars, guesser_vars, local_vars, pc, ret, timers,
                   turn_in_progress, trace>>

\* A registered process_turn runs
GuiProcessTurn ==
    /\ pc = "gui"
    /\ timers["process_turn"] > 0
    /\ \E r \in {process_turn(Game, clue, count, guesses_made, max_guesses,
                              turn_in_progress, screen)} :
          GuiApply("process_turn", r)
    /\ UNCHANGED <<guesser_vars, mode, player_team, turn_count, turn_ended,
                   turn_already_switched, pc, ret>>

\* A registered ai_guesser_turn runs; make_guess stores the clue in the
\* guesser of the team (275-276 of codenames.py).
GuiAiGuesserTurn ==
    /\ pc = "gui"
    /\ timers["ai_guesser_turn"] > 0
    /\ \E r \in {ai_guesser_turn(Game, clue, count, guesses_made, max_guesses,
                                 turn_in_progress, screen)} :
          GuiApply("ai_guesser_turn", r)
    /\ IF ~game_over /\ turn_in_progress /\ guesses_made < max_guesses
       THEN /\ recent_clue' = [recent_clue EXCEPT ![turn] = clue]
            /\ recent_count' = [recent_count EXCEPT ![turn] = count]
       ELSE UNCHANGED guesser_vars
    /\ UNCHANGED <<mode, player_team, turn_count, turn_ended,
                   turn_already_switched, pc, ret>>

NextGui == GuiStartGame \/ GuiMainMenu \/ GuiProcessTurn \/ GuiAiGuesserTurn

SpecGui == Init /\ [][NextGui]_vars

-----------------------------------------------------------------------------
(* Properties of the game state (SpecApi) *)

\* The board words of a role that are not revealed
unrevealed_of(role) ==
    {w \in Range(words) : card_types[w] = role /\ w \notin revealed}

\* The board words of a role
cards_of(role) == {w \in Range(words) : card_types[w] = role}

\* C1: in every state reached after setup_board by reveal_card calls (valid,
\* repeated or off the board), red_remaining is the number of RED words that
\* are not revealed and blue_remaining the number of BLUE words that are not.
C1_RemainingCountsUnrevealed ==
    pc = "api" =>
        /\ red_remaining = Cardinality(unrevealed_of("RED"))
        /\ blue_remaining = Cardinality(unrevealed_of("BLUE"))

\* C1's case: a RED and a BLUE card are revealed, and the last call was a
\* reveal_card that was refused.
C1_Witness ==
    /\ pc = "api"
    /\ ret.op = "reveal_card"
    /\ ~ret.success
    /\ \E r \in revealed, b \in revealed :
          card_types[r] = "RED" /\ card_types[b] = "BLUE"

\* C2: after setup_board the board has 25 distinct words, one ASSASSIN, 7
\* NEUTRAL, 9 cards of the team in turn and 8 of the other team, for either
\* starting team.
C2_SetupCounts ==
    (pc = "api" /\ ret.op = "setup_board") =>
        /\ Len(words) = 25
        /\ Cardinality(Range(words)) = 25
        /\ DOMAIN card_types = Range(words)
        /\ Cardinality(cards_of("ASSASSIN")) = 1
        /\ Cardinality(cards_of("NEUTRAL")) = 7
        /\ Cardinality(cards_of(turn)) = 9
        /\ \A t \in Teams \ {turn} : Cardinality(cards_of(t)) = 8

\* C2's case: a setup in which BLUE starts
C2_Witness ==
    /\ pc = "api"
    /\ ret.op = "setup_board"
    /\ turn = "BLUE"
    /\ Len(words) = 25

\* C4: the clue text generate_clue returns is not a word of the board, unless
\* it is the pass sentinel.
C4_ClueNotOnBoard ==
    (pc = "api" /\ ret.op = "generate_clue" /\ ret.text # "PASS") =>
        ret.text \notin Range(words)

\* C5: reveal_card on a word that is revealed already, or that is not on the
\* board, returns (False, None) and leaves revealed, red_remaining and
\* blue_remaining as they were.
C5_RefusedRevealChangesNothing ==
    [][(/\ pc = "api"
        /\ ret'.op = "reveal_card"
        /\ (ret'.arg \in revealed \/ ret'.arg \notin Range(words)))
       => (/\ ret'.success = FALSE
           /\ ret'.card_type = None
           /\ revealed' = revealed
           /\ red_remaining' = red_remaining
           /\ blue_remaining' = blue_remaining)]_vars

\* C5's case: the last call was a second reveal of a team's card, refused.
C5_Witness ==
    /\ pc = "api"
    /\ ret.op = "reveal_card"
    /\ ~ret.success
    /\ ret.arg \in revealed
    /\ card_types[ret.arg] \in Teams

\* C5's other case: the last call was a reveal of a word off the board.
C5_WitnessOffBoard ==
    /\ pc = "api"
    /\ ret.op = "reveal_card"
    /\ ~ret.success
    /\ ret.arg \notin Range(words)

\* C7: check_win_condition returns RED when red_remaining is 0, otherwise
\* BLUE when blue_remaining is 0, otherwise None, and changes no field of the
\* game.
C7_CheckWinPure ==
    [][(pc = "api" /\ ret'.op = "check_win_condition")
       => (/\ ret'.value = (IF red_remaining = 0 THEN "RED"
                            ELSE IF blue_remaining = 0 THEN "BLUE"
                            ELSE None)
           /\ UNCHANGED <<game_vars, guesser_vars>>)]_vars

\* C7's case: both counts are 0 and the call returned RED.
C7_Witness ==
    /\ pc = "api"
    /\ ret.op = "check_win_condition"
    /\ ret.value = "RED"
    /\ red_remaining = 0
    /\ blue_remaining = 0

\* C7's other case: only blue_remaining is 0 and the call returned BLUE.
C7_WitnessBlue ==
    /\ pc = "api"
    /\ ret.op = "check_win_condition"
    /\ ret.value = "BLUE"
    /\ red_remaining > 0

-----------------------------------------------------------------------------
(* Properties of play_game (Spec) *)

\* A step of the guessing loop in which a card is revealed
RevealStep == pc = "guess" /\ revealed' # revealed

\* The role of the card a RevealStep reveals
RevealedRole == card_types[CHOOSE w \in revealed' \ revealed : TRUE]

\* One of the two counts is 0 after the step
CountReachesZero == red_remaining' = 0 \/ blue_remaining' = 0

\* C3: when the acting team reveals the ASSASSIN the game is over at once and
\* the winner is the other team, whatever the two counts are; no guess and no
\* flip of turn follows.
C3_AssassinEndsGame ==
    /\ [][(RevealStep /\ RevealedRole = "ASSASSIN")
          => (/\ game_over'
              /\ winner' \in Teams \ {turn}
              /\ turn' = turn
              /\ pc' = "turn")]_vars
    /\ [][("ASSASSIN" \in {card_types[w] : w \in revealed})
          => (/\ game_over /\ game_over'
              /\ revealed' = revealed
              /\ turn' = turn
              /\ winner' = winner
              /\ pc' = "done")]_vars

\* C3's case: the game is over by the ASSASSIN with both counts above 0, and
\* RED, who revealed it, lost.
C3_Witness ==
    /\ game_over
    /\ "ASSASSIN" \in {card_types[w] : w \in revealed}
    /\ red_remaining > 0
    /\ blue_remaining > 0
    /\ turn = "RED"
    /\ winner = "BLUE"

\* C8: a reveal that brings a count to 0 ends the game at once; the winner is
\* the team whose count is 0, whichever team acted, before the miss rule, and
\* turn is not flipped.
C8_ZeroCountWins ==
    [][(RevealStep /\ CountReachesZero)
       => (/\ game_over'
           /\ winner' = (IF red_remaining' = 0 THEN "RED" ELSE "BLUE")
           /\ turn' = turn
           /\ pc' = "turn")]_vars

\* C8's case: BLUE acted, revealed RED's last card, and RED won.
C8_Witness ==
    /\ game_over
    /\ winner = "RED"
    /\ red_remaining = 0
    /\ blue_remaining > 0
    /\ turn = "BLUE"

\* C10: a reveal of a NEUTRAL card or of a card of the other team, with no
\* count at 0, ends the turn at once: the guessing loop is left, whatever
\* guesses remain, and turn is the other team.
C10_MissEndsTurn ==
    [][(/\ RevealStep
        /\ RevealedRole \in {"NEUTRAL"} \cup (Teams \ {turn})
        /\ ~CountReachesZero)
       => (/\ pc' = "turn"
           /\ turn' \in Teams \ {turn}
           /\ ~game_over'
           /\ revealed' = revealed \cup {CHOOSE w \in revealed' \ revealed : TRUE})]_vars

\* C10's case: the turn was ended by a miss on its first guess, with guesses
\* remaining.
C10_Witness ==
    /\ pc = "turn"
    /\ ~game_over
    /\ turn_already_switched
    /\ guesses_made = 1
    /\ max_guesses > 1

\* The reveals of a turn are counted by guesses_made: it is 0 when the
\* guessing starts, each pass of the loop adds the cards it reveals, and the
\* loop runs another pass only after a card of the acting team.
GuessesMadeCountsReveals ==
    /\ [][(pc = "turn" /\ pc' = "guess")
          => (guesses_made' = 0 /\ revealed' = revealed)]_vars
    /\ [][pc = "guess"
          => (/\ guesses_made' = guesses_made + Cardinality(revealed' \ revealed)
              /\ count' = count
              /\ clue' = clue
              /\ (pc' = "guess"
                    => (/\ revealed' # revealed
                        /\ RevealedRole = turn
                        /\ turn' = turn)))]_vars

\* The reveal that is the acting team's (count + 1)-th card of its own in
\* the turn
CapReveal == RevealStep /\ RevealedRole = turn /\ guesses_made' = count + 1

\* C9, as stated: in a turn with the clue (text, count) at most count + 1
\* cards are revealed, and when the acting team has revealed count + 1 cards
\* of its own the turn ends and turn passes to the other team.
C9_AsStated ==
    /\ GuessesMadeCountsReveals
    /\ [][pc = "guess" => guesses_made' <= count + 1]_vars
    /\ [][CapReveal => (pc' = "turn" /\ turn' \in Teams \ {turn})]_vars

\* C9, amended: in a turn with the clue (text, count) at most count + 1 cards
\* are revealed; when the acting team has revealed count + 1 cards of its own
\* the turn ends, and turn passes to the other team unless that reveal
\* brought the team's count to 0, which ends the game with turn as it is.
C9_GuessCap ==
    /\ GuessesMadeCountsReveals
    /\ [][pc = "guess" => guesses_made' <= count + 1]_vars
    /\ [][(CapReveal /\ ~CountReachesZero)
          => (pc' = "turn" /\ turn' \in Teams \ {turn} /\ ~game_over')]_vars
    /\ [][(CapReveal /\ CountReachesZero)
          => (pc' = "turn" /\ turn' = turn /\ game_over')]_vars

\* C9's case: a turn has ended at its cap of count + 1 cards, all of the
\* acting team, and turn has passed.
C9_Witness ==
    /\ pc = "turn"
    /\ ~game_over
    /\ clue # "PASS"
    /\ guesses_made = count + 1
    /\ turn_ended
    /\ ~turn_already_switched

\* The case C9 as stated leaves out: the (count + 1)-th card of the acting
\* team was its last, and the game is over with turn not passed.
C9_WinAtCap ==
    /\ pc = "turn"
    /\ game_over
    /\ clue # "PASS"
    /\ guesses_made = count + 1
    /\ winner = turn
    /\ (IF turn = "RED" THEN red_remaining ELSE blue_remaining) = 0

\* The fairness of play_game: the loop takes its next step.
SpecFair == Spec /\ WF_vars(Next)

\* C6: play_game terminates; the outer loop runs at most max_turns turns, a
\* forfeited turn counting as one; when the ceiling is reached without a win
\* the game ends with game_over false and winner None.
C6_Terminates ==
    /\ [](turn_count <= max_turns)
    /\ [][(pc = "turn" /\ pc' # "done") => turn_count' = turn_count + 1]_vars
    /\ [][pc # "turn" => turn_count' = turn_count]_vars
    /\ []((pc = "done" /\ ~game_over)
            => (turn_count = max_turns /\ winner = None))
    /\ <>(pc = "done")

\* C6's case: the game ended at the ceiling without a winner.
C6_Witness ==
    /\ pc = "done"
    /\ turn_count = max_turns
    /\ ~game_over
    /\ winner = None

-----------------------------------------------------------------------------
(* Further properties of play_game (Spec) *)

\* The pass of the outer loop in which the spymaster's clue is the pass
\* sentinel
PassClueStep == pc = "turn" /\ turn_count' = turn_count + 1 /\ clue' = "PASS"

\* The pass of the guessing loop in which the operative returns None
OperativePassStep == pc = "guess" /\ guess' = None

\* C11: a pass ends the turn without a reveal.  When the clue is the pass
\* sentinel, and when the operative returns None, no card is revealed, the
\* two counts are unchanged, no guess follows in the turn and turn becomes
\* the other team.
C11_PassEndsTurn ==
    [][(PassClueStep \/ OperativePassStep)
       => (/\ revealed' = revealed
           /\ red_remaining' = red_remaining
           /\ blue_remaining' = blue_remaining
           /\ turn' \in Teams \ {turn}
           /\ pc' = "turn"
           /\ ~game_over')]_vars

\* C11's case: the operative passed after a card of its team was revealed
\* in the turn.
C11_Witness ==
    /\ pc = "turn"
    /\ clue # "PASS"
    /\ guess = None
    /\ guesses_made >= 1
    /\ turn_ended
    /\ ~turn_already_switched

\* C11's other case: the spymaster's clue was the pass sentinel.
C11_WitnessClue ==
    /\ pc = "turn"
    /\ turn_count > 0
    /\ clue = "PASS"
    /\ ~game_over

\* The ASSASSIN card is revealed
AssassinRevealed == \E w \in revealed : card_types[w] = "ASSASSIN"

\* C13, as stated: game_over is true if and only if red_remaining is 0 or
\* blue_remaining is 0.
C13_AsStated ==
    game_over <=> (red_remaining = 0 \/ blue_remaining = 0)

\* C13, amended: in play_game, at every guess and turn boundary, game_over is
\* true if and only if red_remaining is 0, blue_remaining is 0, or the
\* ASSASSIN is revealed.
C13_GameOverIff ==
    game_over <=> (red_remaining = 0 \/ blue_remaining = 0 \/ AssassinRevealed)

\* C13's case: the game is over with neither count at 0, by the ASSASSIN.
C13_Witness ==
    /\ game_over
    /\ AssassinRevealed
    /\ red_remaining # 0
    /\ blue_remaining # 0

\* C13's other case: the game is over by a count at 0, the ASSASSIN not
\* revealed.
C13_WitnessCount ==
    /\ game_over
    /\ ~AssassinRevealed
    /\ (red_remaining = 0 \/ blue_remaining = 0)

-----------------------------------------------------------------------------
(* Further properties of the policies and of the game state (SpecApi) *)

\* C12: the count generate_clue returns is at least 0 and at most the number
\* of the team's unrevealed words.
C12_ClueCountInRange ==
    (pc = "api" /\ ret.op = "generate_clue")
        => /\ ret.count >= 0
           /\ ret.count <= Cardinality(unrevealed_of(ret.team))

\* C12's case: the team has no unrevealed word, and the count is 0.
C12_Witness ==
    /\ pc = "api"
    /\ ret.op = "generate_clue"
    /\ unrevealed_of(ret.team) = {}
    /\ ret.count = 0

\* C12's other case: a clue for several words of a team that has more.
C12_WitnessMany ==
    /\ pc = "api"
    /\ ret.op = "generate_clue"
    /\ ret.count >= 2
    /\ ret.count < Cardinality(unrevealed_of(ret.team))

\* A direct reveal_card call made when the game is over
RevealAfterGameOver == pc = "api" /\ game_over /\ ret'.op = "reveal_card"

\* C14: once game_over is true, a later reveal_card call is not applied,
\* also for an unrevealed board word: revealed, the two counts, turn and
\* winner keep their values.
C14_NoRevealAfterGameOver ==
    [][RevealAfterGameOver
       => (/\ ~ret'.success
           /\ revealed' = revealed
           /\ red_remaining' = red_remaining
           /\ blue_remaining' = blue_remaining
           /\ turn' = turn
           /\ winner' = winner)]_vars

\* C14's case: the game is over and a reveal_card call has returned.
C14_Witness ==
    /\ pc = "api"
    /\ game_over
    /\ ret.op = "reveal_card"
    /\ ret.arg \in Range(words)

\* C15: reveal_card changes only revealed, red_remaining and blue_remaining:
\* it leaves turn, game_over, winner, words and card_types as they are; and
\* after setup no other operation changes revealed or the two counts.
C15_RevealFrame ==
    [][pc = "api"
       => IF ret'.op = "reveal_card"
          THEN /\ turn' = turn
               /\ game_over' = game_over
               /\ winner' = winner
               /\ words' = words
               /\ card_types' = card_types
          ELSE /\ revealed' = revealed
               /\ red_remaining' = red_remaining
               /\ blue_remaining' = blue_remaining]_vars

\* C15's case: reveal_card was applied to a card of the team to act, whose
\* count it lowered.
C15_Witness ==
    /\ pc = "api"
    /\ ret.op = "reveal_card"
    /\ ret.success
    /\ ret.card_type = turn
    /\ Cardinality(unrevealed_of(turn)) < Cardinality(cards_of(turn))

\* C16: make_guess returns None whenever the clue text is the pass sentinel
\* "PASS" or the count is 0, in every game state.
C16_PassOrZeroGivesNone ==
    (pc = "api" /\ ret.op = "make_guess" /\ (ret.clue = "PASS" \/ ret.count = 0))
        => ret.value = None

\* C16's case: the count is 0 for a clue that has a match on the board (CAT
\* for ANIMAL), and make_guess returned None.
C16_Witness ==
    /\ pc = "api"
    /\ ret.op = "make_guess"
    /\ ret.clue = "ANIMAL"
    /\ ret.count = 0
    /\ "CAT" \in Range(words) \ revealed
    /\ ret.value = None

\* C16's other case: the pass sentinel with a positive count.
C16_WitnessPass ==
    /\ pc = "api"
    /\ ret.op = "make_guess"
    /\ ret.clue = "PASS"
    /\ ret.count > 0
    /\ "PASS" \in Range(words) \ revealed
    /\ ret.value = None

\* C17: in every game state, for every clue and count, make_guess returns
\* None or a word that is on the board and not revealed; it returns None
\* when every board word is revealed.
C17_GuessIsUnrevealedBoardWord ==
    (pc = "api" /\ ret.op = "make_guess")
        => /\ ret.value = None \/ ret.value \in Range(words) \ revealed
           /\ Range(words) \subseteq revealed => ret.value = None

\* C17's case: every board word is revealed, the clue is not a pass, and
\* make_guess returned None.
C17_Witness ==
    /\ pc = "api"
    /\ ret.op = "make_guess"
    /\ ret.clue = "ANIMAL"
    /\ ret.count > 0
    /\ Range(words) \subseteq revealed
    /\ ret.value = None

\* C17's other case: make_guess returned a word while words that match the
\* clue are revealed.
C17_WitnessWord ==
    /\ pc = "api"
    /\ ret.op = "make_guess"
    /\ ret.value # None
    /\ "CAT" \in revealed
    /\ "BEAR" \in revealed

-----------------------------------------------------------------------------
(* Properties of play_game with any operative (SpecAnyOperative) *)

\* The pass of the guessing loop in which the operative names a word that
\* reveal_card refuses: a word that is not on the board, or a revealed word.
RefusedGuessStep ==
    /\ pc = "guess"
    /\ guess' # None
    /\ (guess' \notin Range(words) \/ guess' \in revealed)

\* C18: in play_game, when reveal_card reports not-applied for a guess, the
\* game state other than turn is unchanged, guesses_made is not incremented,
\* play goes on (no exception leaves play_game), and the turn ends with turn
\* passing to the other team.
C18_RefusedGuessEndsTurn ==
    [][RefusedGuessStep
       => (/\ words' = words
           /\ card_types' = card_types
           /\ revealed' = revealed
           /\ red_remaining' = red_remaining
           /\ blue_remaining' = blue_remaining
           /\ game_over' = game_over
           /\ winner' = winner
           /\ guesses_made' = guesses_made
           /\ pc' = "turn"
           /\ turn' \in Teams \ {turn})]_vars

\* C18's case: the turn ended on a guess of a revealed word, after a card of
\* the team was revealed in the turn and before the cap on guesses.
C18_Witness ==
    /\ pc = "turn"
    /\ turn_count > 0
    /\ clue # "PASS"
    /\ guess \in revealed
    /\ guesses_made >= 1
    /\ guesses_made < max_guesses
    /\ turn_ended
    /\ ~turn_already_switched
    /\ ~game_over

\* C18's other case: the turn ended on a guess that is not on the board.
C18_WitnessOffBoard ==
    /\ pc = "turn"
    /\ turn_count > 0
    /\ clue # "PASS"
    /\ guess # None
    /\ guess \notin Range(words)
    /\ turn_ended
    /\ ~game_over

-----------------------------------------------------------------------------
(* Properties of the two policies' association tables (SpecApi) *)

\* The categories of the spymaster's table that hold both words
shared_categories(w1, w2) ==
    {k \in DOMAIN spymaster_associations :
        /\ lower(w1) \in Range(spymaster_associations[k].words)
        /\ lower(w2) \in Range(spymaster_associations[k].words)}

\* The clue text is the name, or a member, of a category that holds both
\* words.
covers_both(text, w1, w2) ==
    \E k \in shared_categories(w1, w2) :
        \/ lower(text) = spymaster_associations[k].category
        \/ lower(text) \in Range(spymaster_associations[k].words)

\* C19: when two unrevealed words of the team are members of one category
\* of the spymaster's table and the category's name is not a board word,
\* generate_clue returns a clue that covers both words, with count at
\* least 2.
C19_SharedCategoryClue ==
    (pc = "api" /\ ret.op = "generate_clue")
        => \A w1, w2 \in unrevealed_of(ret.team) :
              (/\ w1 # w2
               /\ \E k \in shared_categories(w1, w2) :
                     upper(spymaster_associations[k].category) \notin Range(words))
                 => /\ ret.count >= 2
                    /\ covers_both(ret.text, w1, w2)

\* The unrevealed board words that are members of the operative's category
\* of the given name
unrevealed_members(name) ==
    {w \in Range(words) \ revealed :
        \E k \in DOMAIN guesser_associations :
            /\ guesser_associations[k].category = lower(name)
            /\ lower(w) \in Range(guesser_associations[k].words)}

\* The word equals the clue, contains it or is contained in it, whatever
\* the case of the letters (311-316).
lexical_match(text, w) ==
    \/ contains(lower(w), lower(text))
    \/ contains(lower(text), lower(w))

\* A direct make_guess call has returned, for a clue that names a category
\* of which an unrevealed board word is a member, with a positive count.
CategoryClueGuess ==
    /\ pc = "api"
    /\ ret.op = "make_guess"
    /\ ret.count > 0
    /\ unrevealed_members(ret.clue) # {}

\* C20, as stated: when the clue names a category of the operative's table,
\* the count is positive and an unrevealed board word is a member of the
\* category, make_guess returns a member of the category.
C20_AsStated ==
    CategoryClueGuess => ret.value \in unrevealed_members(ret.clue)

\* C20, amended: under the same conditions, and when no unrevealed board
\* word outside the category equals the clue, contains it or is contained
\* in it, make_guess returns a member of the category.
C20_CategoryMemberGuessed ==
    (/\ CategoryClueGuess
     /\ \A w \in (Range(words) \ revealed) \ unrevealed_members(ret.clue) :
           ~lexical_match(ret.clue, w))
        => ret.value \in unrevealed_members(ret.clue)

\* C20's case: the clue is ANIMAL, TRAIN and other words outside the
\* category are unrevealed, and a member of the category is returned.
C20_Witness ==
    /\ CategoryClueGuess
    /\ ret.clue = "ANIMAL"
    /\ "TRAIN" \in Range(words) \ revealed
    /\ "CAT" \in revealed
    /\ ret.value \in unrevealed_members("ANIMAL")

\* C20's other case: the clue is ROUND, GROUND is revealed, and a member of
\* the category is returned.
C20_WitnessRound ==
    /\ CategoryClueGuess
    /\ ret.clue = "ROUND"
    /\ "GROUND" \in revealed
    /\ ret.value = "BALL"

-----------------------------------------------------------------------------
(* Properties of setup_board over word lists of any size (SpecApi) *)

C21_WitnessExact ==
    /\ pc = "api"
    /\ ret.op = "setup_board"
    /\ ret.lexicon_size = 25
    /\ ret.raised = None

-----------------------------------------------------------------------------
(* Further properties of the direct calls (SpecApi) *)

\* A direct call of one of the two policies
PolicyCallStep ==
    pc = "api" /\ ret'.op \in {"generate_clue", "make_guess"}

\* C22: generate_clue and make_guess only read the game: words, card_types,
\* revealed, red_remaining, blue_remaining, turn, game_over and winner are
\* the same after every call as before it.
C22_PoliciesReadOnly ==
    [][PolicyCallStep
       => (/\ words' = words
           /\ card_types' = card_types
           /\ revealed' = revealed
           /\ red_remaining' = red_remaining
           /\ blue_remaining' = blue_remaining
           /\ turn' = turn
           /\ game_over' = game_over
           /\ winner' = winner)]_vars

\* C22's case: make_guess has returned a word, which is still unrevealed, in
\* a game in which cards were revealed before.
C22_Witness ==
    /\ pc = "api"
    /\ ret.op = "make_guess"
    /\ ret.value \in Range(words) \ revealed
    /\ revealed # {}

\* C22's other case: generate_clue has returned a clue for several words,
\* all of which are still unrevealed.
C22_WitnessClue ==
    /\ pc = "api"
    /\ ret.op = "generate_clue"
    /\ ret.count >= 2
    /\ Cardinality(unrevealed_of(ret.team)) = Cardinality(cards_of(ret.team))

-----------------------------------------------------------------------------
(* Further properties of play_game: roles, continuation, game over (Spec) *)

\* C23: the role of every board word is fixed at setup: after setup_board,
\* no reveal and no turn of play_game changes words or the word-to-role map
\* card_types.
C23_RolesFixed ==
    [][pc # "new" => (words' = words /\ card_types' = card_types)]_vars

\* C23's case: cards of both teams and a NEUTRAL card are revealed, over at
\* least two turns, and each revealed card still has its role.
C23_Witness ==
    /\ pc \in {"turn", "guess"}
    /\ turn_count >= 2
    /\ \E w \in revealed : card_types[w] = "RED"
    /\ \E w \in revealed : card_types[w] = "BLUE"
    /\ \E w \in revealed : card_types[w] = "NEUTRAL"
    /\ Len(words) = 25

\* The pass of the guessing loop in which the acting team reveals a card of
\* its own role, stays below the cap of count + 1 guesses, and has not won
OwnCardBelowCap ==
    /\ RevealStep
    /\ RevealedRole = turn
    /\ guesses_made' < count + 1
    /\ ~game_over'

\* C24: in play_game, after the acting team reveals a card of its own role
\* with guesses_made still below count + 1 and no winner, the turn goes on:
\* turn is unchanged and the same team's operative is asked for another
\* guess with the same clue and count.
C24_TurnContinues ==
    [][OwnCardBelowCap
       => (/\ pc' = "guess"
           /\ turn' = turn
           /\ clue' = clue
           /\ count' = count
           /\ winner' = None
           /\ ~turn_ended')]_vars

\* C24's case: the operative is asked for its third guess of the turn, two
\* cards of its team being revealed in the turn.
C24_Witness ==
    /\ pc = "guess"
    /\ guesses_made = 2
    /\ guess \in revealed
    /\ card_types[guess] = turn
    /\ guesses_made < count + 1
    /\ ~game_over

\* C25: once play_game has entered game over, by a count at 0 or by the
\* ASSASSIN, nothing more happens in the game: no clue is requested, no
\* guess is asked for, no card is revealed, turn is not flipped (not in the
\* step that ends the game either) and winner never changes; play_game only
\* shows the outcome.
C25_NoTransitionAfterGameOver ==
    /\ [][game_over
          => (/\ pc = "turn"
              /\ pc' = "done"
              /\ game_over'
              /\ winner' = winner
              /\ turn' = turn
              /\ revealed' = revealed
              /\ red_remaining' = red_remaining
              /\ blue_remaining' = blue_remaining
              /\ turn_count' = turn_count
              /\ clue' = clue
              /\ count' = count
              /\ guess' = guess
              /\ guesses_made' = guesses_made)]_vars
    /\ [][(~game_over /\ game_over') => (turn' = turn /\ pc' = "turn")]_vars

\* C25's case: play_game has finished a game that ended by the ASSASSIN,
\* with cards of both teams unrevealed.
C25_Witness ==
    /\ pc = "done"
    /\ game_over
    /\ AssassinRevealed
    /\ red_remaining > 0
    /\ blue_remaining > 0
    /\ winner \in Teams \ {turn}

\* C25's other case: play_game has finished a game that ended by a count at
\* 0, before the cap on guesses of the last turn.
C25_WitnessCount ==
    /\ pc = "done"
    /\ game_over
    /\ ~AssassinRevealed
    /\ (red_remaining = 0 \/ blue_remaining = 0)
    /\ guesses_made < max_guesses

\* C26: in every state of a game that play_game drives, red_remaining and
\* blue_remaining are not both 0 (neither is below 0), so the order of the
\* two tests of check_win_condition never decides the winner.
C26_CountsNeverBothZero ==
    /\ ~(red_remaining = 0 /\ blue_remaining = 0)
    /\ red_remaining >= 0
    /\ blue_remaining >= 0
    /\ (blue_remaining = 0 /\ pc # "new") => (game_over /\ winner = "BLUE")

\* C26's case: BLUE has won by its count, the second test of
\* check_win_condition, with cards of RED left.
C26_Witness ==
    /\ game_over
    /\ blue_remaining = 0
    /\ red_remaining > 0
    /\ winner = "BLUE"

\* C26's other case: the game is over with one count at 0 and the other at 1.
C26_WitnessClose ==
    /\ game_over
    /\ red_remaining + blue_remaining = 1

-----------------------------------------------------------------------------
(* Properties of the clue selection (SpecApi) *)

\* What generate_clue collects in clue_scores (192-201), one record for each
\* association string: the place at which it is first produced, scanning the
\* team's unrevealed words in board order and the potential clues of each in
\* their order, and the number of distinct words it hints at.
clue_summary(team) ==
    Apply(LAMBDA ins :
            {[clue |-> ins[i].clue, first |-> i,
              n |-> Cardinality({ins[j].word :
                                   j \in {k \in DOMAIN ins : ins[k].clue = ins[i].clue}})] :
                i \in {k \in DOMAIN ins :
                          \A j \in 1..(k - 1) : ins[j].clue # ins[k].clue}},
          clue_insertions(team_words_of(Game, team)))

\* The association strings that qualify as a clue: those that are not board
\* words (209)
qualifying_clues(team) ==
    {r \in clue_summary(team) : upper(r.clue) \notin Range(words)}

\* generate_clue has returned for a team that has unrevealed words
ClueForTeamWithWords ==
    /\ pc = "api"
    /\ ret.op = "generate_clue"
    /\ unrevealed_of(ret.team) # {}

\* C27, as stated: when no qualifying association hints at two or more of
\* the team's unrevealed words, generate_clue returns one of the team's own
\* unrevealed words, with count 1.
C27_AsStated ==
    (/\ ClueForTeamWithWords
     /\ \A r \in qualifying_clues(ret.team) : r.n < 2)
        => /\ ret.text \in unrevealed_of(ret.team)
           /\ ret.count = 1

\* C27, amended: when no association of the team's unrevealed words
\* qualifies at all, generate_clue returns one of the team's own unrevealed
\* words, with count 1; when some qualify and each hints at one word only,
\* it returns one of them, with count 1.
C27_FallbackClue ==
    /\ (ClueForTeamWithWords /\ qualifying_clues(ret.team) = {})
         => /\ ret.text \in unrevealed_of(ret.team)
            /\ ret.count = 1
    /\ (/\ ClueForTeamWithWords
        /\ qualifying_clues(ret.team) # {}
        /\ \A r \in qualifying_clues(ret.team) : r.n < 2)
         => /\ ret.text \in {upper(r.clue) : r \in qualifying_clues(ret.team)}
            /\ ret.count = 1

\* C27's case: the team has several unrevealed words, none with a
\* qualifying association, and the clue is one of them.
C27_Witness ==
    /\ ClueForTeamWithWords
    /\ Cardinality(unrevealed_of(ret.team)) >= 2
    /\ qualifying_clues(ret.team) = {}
    /\ ret.text \in unrevealed_of(ret.team)
    /\ ret.count = 1

\* C27's other case: associations qualify, each for one word, and the clue
\* is one of them and not a word of the board.
C27_WitnessSingle ==
    /\ ClueForTeamWithWords
    /\ qualifying_clues(ret.team) # {}
    /\ \A r \in qualifying_clues(ret.team) : r.n < 2
    /\ ret.text \notin Range(words)
    /\ ret.count = 1

\* Among the association strings of the set, the one the selection prefers
\* to every other: it hints at more words, or at as many and is produced
\* earlier.
preferred(r, S) ==
    \A d \in S \ {r} : d.n < r.n \/ (d.n = r.n /\ r.first < d.first)

\* C28: among the association strings that are not board words,
\* generate_clue selects one whose set of distinct associated unrevealed
\* words of the team is largest, and among several of that size the first
\* in the order in which the associations were first produced, scanning the
\* team's words in board order; the count is the size of that set.
C28_LargestFirstClue ==
    ClueForTeamWithWords
        => Apply(LAMBDA S :
                   S = {} \/ \E r \in S : /\ preferred(r, S)
                                          /\ ret.text = upper(r.clue)
                                          /\ ret.count = r.n,
                 qualifying_clues(ret.team))

\* C28's case: several qualifying associations hint at the largest number
\* of words, two or more, others hint at fewer, and the clue is the first of
\* the largest.
C28_Witness ==
    /\ ClueForTeamWithWords
    /\ Apply(LAMBDA S :
                \E r \in S : /\ preferred(r, S)
                             /\ ret.text = upper(r.clue)
                             /\ r.n >= 2
                             /\ \E d \in S \ {r} : d.n = r.n
                             /\ \E d \in S : d.n < r.n,
             qualifying_clues(ret.team))

-----------------------------------------------------------------------------
(* Properties of the operative's choice in play_game (Spec) *)

\* The pass of the guessing loop in which the team's AIGuesser is asked
\* (557-563); the clue is not the pass and the count is positive there.
AIGuessStep ==
    /\ pc = "guess"
    /\ ~(mode = 2 /\ turn = player_team)
    /\ clue # "PASS"
    /\ count > 0

\* The relevance score of each unrevealed board word for the clue
relevance(clue_text) ==
    Apply(LAMBDA clue_lower :
            [w \in Range(words) \ revealed |-> score_word(clue_lower, lower(w))],
          lower(clue_text))

\* C29: for a clue that is not the pass, with a positive count, make_guess
\* returns an unrevealed board word whose relevance score is the maximum
\* over all unrevealed board words, and it returns None exactly when that
\* maximum is 0.
C29_GuessHasMaxScore ==
    [][AIGuessStep
       => Apply(LAMBDA score :
                  /\ guess' = None <=> (\A w \in DOMAIN score : score[w] = 0)
                  /\ guess' # None
                       => /\ guess' \in DOMAIN score
                          /\ \A w \in DOMAIN score : score[w] <= score[guess'],
                relevance(clue))]_vars

\* C29's case: the AIGuesser returned a word for a clue of its spymaster,
\* and the word was revealed.
C29_Witness ==
    /\ mode = 1
    /\ turn_count > 0
    /\ clue # "PASS"
    /\ guess \in revealed
    /\ guesses_made >= 1

\* C29's other case: no unrevealed word scores above 0 for the clue the
\* human spymaster gave, and the AIGuesser returned None.
C29_WitnessNone ==
    /\ mode = 3
    /\ pc = "turn"
    /\ clue = "XXXXXXXXXXXXXXXXXXXX"
    /\ guess = None
    /\ guesses_made = 0
    /\ turn_ended
    /\ \A w \in DOMAIN relevance(clue) : relevance(clue)[w] = 0

-----------------------------------------------------------------------------
(* The spymaster of a team without words (SpecApi) *)

\* C30: generate_clue returns the pass sentinel ("PASS", 0) whenever the
\* team has no unrevealed word on the board.
C30_PassForNoWords ==
    (pc = "api" /\ ret.op = "generate_clue" /\ unrevealed_of(ret.team) = {})
        => (ret.text = "PASS" /\ ret.count = 0)

\* C30's case: every card of the team is revealed, cards of the other team
\* are not, and the clue is the pass sentinel.
C30_Witness ==
    /\ pc = "api"
    /\ ret.op = "generate_clue"
    /\ cards_of(ret.team) # {}
    /\ cards_of(ret.team) \subseteq revealed
    /\ \E t \in Teams : unrevealed_of(t) # {}
    /\ ret.text = "PASS"
    /\ ret.count = 0

-----------------------------------------------------------------------------
(* The turn switch, forfeits, reveals and outcome of play_game (Spec) *)

\* A step of play_game's loops after which the game is not over
LiveStep == pc \in {"turn", "guess"} /\ ~game_over'

\* C31: in play_game every turn that does not end the game flips turn
\* exactly once, on every path (spymaster pass, operative pass, miss, guess
\* cap): turn is unchanged by a step within the turn, and is the other team
\* after the step that ends the turn, so consecutive turns belong to opposite
\* teams.
C31_TurnFlipsOnce ==
    [][LiveStep
       => IF pc' = "turn"
          THEN turn' \in Teams \ {turn}
          ELSE turn' = turn /\ pc' \in {"guess", "done"}]_vars

\* C31's case: the turn ended at the guess cap, every guess a card of the
\* acting team, and turn went to the other team.
C31_Witness ==
    /\ pc = "turn"
    /\ ~game_over
    /\ guesses_made = max_guesses
    /\ guesses_made >= 2
    /\ turn_ended
    /\ ~turn_already_switched
    /\ card_types[guess] \in Teams \ {turn}

\* C31's other case: the turn ended on a miss, which switched turn inside
\* the guessing loop, after a card of the team was revealed.
C31_WitnessMiss ==
    /\ pc = "turn"
    /\ ~game_over
    /\ guesses_made >= 2
    /\ turn_already_switched
    /\ card_types[guess] # "ASSASSIN"

\* The pass of the outer loop in which an AISpymaster is asked for the clue
\* (529-531)
AIClueStep ==
    /\ pc = "turn"
    /\ turn_count' = turn_count + 1
    /\ ~(mode = 3 /\ turn = player_team)

\* C32: in play_game with an AI spymaster, a turn is forfeited at the clue
\* stage (clue text "PASS") only when the acting team has no unrevealed
\* word, so an AI spymaster never forfeits a turn of a live game.
C32_AISpymasterNeverForfeits ==
    [][(AIClueStep /\ clue' = "PASS")
       => (unrevealed_of(turn) = {} /\ count' = 0)]_vars

\* C33: whenever play_game asks for a clue or a guess, the game not being
\* over, at most 22 cards are revealed: each team has an unrevealed card and
\* the ASSASSIN is unrevealed; so a 23rd reveal always ends the game with a
\* winner.
C33_AtMost22Revealed ==
    /\ [](((pc \in {"turn", "guess"}) /\ ~game_over)
            => /\ Cardinality(revealed) <= 22
               /\ \A t \in Teams : unrevealed_of(t) # {}
               /\ ~AssassinRevealed)
    /\ [][(RevealStep /\ Cardinality(revealed') >= 23)
            => (game_over' /\ winner' \in Teams)]_vars


C33_Witness ==
    /\ pc \in {"turn", "guess", "done"}
    /\ Cardinality(revealed) = 23
    /\ game_over
    /\ winner \in Teams
    /\ guess \in revealed

C33_WitnessLive ==
    /\ pc = "guess"
    /\ ~game_over
    /\ Cardinality(revealed) = 22
    /\ \A t \in Teams : Cardinality(unrevealed_of(t)) = 1


\* C34: in every reachable state of play_game, winner is RED or BLUE exactly
\* when game_over is true and None exactly when game_over is false.
C34_WinnerIffGameOver ==
    /\ game_over \in BOOLEAN
    /\ winner \in Teams <=> game_over
    /\ winner = None <=> ~game_over

C34_Witness ==
    /\ pc = "done"
    /\ game_over
    /\ winner \in Teams \ {turn}
    /\ AssassinRevealed
    /\ \A t \in Teams : unrevealed_of(t) # {}

C34_WitnessCount ==
    /\ game_over
    /\ winner \in Teams
    /\ ~AssassinRevealed
    /\ unrevealed_of(winner) = {}

C34_WitnessCeiling == pc = "done" /\ ~game_over /\ winner = None


\* C35: every guess that play_game passes to reveal_card, from
\* AIGuesser.make_guess or from player_input_guess, is a board word that is
\* not revealed, so the reveal is applied: the word becomes revealed, the
\* guess is counted, the invalid-reveal branch is not taken, and (a guessed
\* word being revealed from then on) no word is guessed twice in a game.
C35_GuessesAreApplied ==
    [][(pc = "guess" /\ guess' # None)
       => (/\ guess' \in Range(words) \ revealed
           /\ revealed' = revealed \cup {guess'}
           /\ guesses_made' = guesses_made + 1
           /\ ~RefusedGuessStep)]_vars

C35_Witness ==
    /\ mode = 2
    /\ pc = "guess"
    /\ guess \in revealed
    /\ guesses_made >= 2
    /\ Cardinality(revealed) >= 6
    /\ turn # player_team

C35_WitnessHuman ==
    /\ mode = 2
    /\ pc = "guess"
    /\ guess \in revealed
    /\ guesses_made >= 2
    /\ Cardinality(revealed) >= 6
    /\ turn = player_team


\* C36: when the clue text is an unrevealed board word of the acting team
\* (the fallback clue of generate_clue) and is not "PASS", the first guess of
\* the team's AIGuesser in that turn is exactly that word, so the first
\* reveal of the turn is a card of the acting team.
C36_FallbackClueGuessedFirst ==
    [][(AIGuessStep /\ guesses_made = 0 /\ clue \in unrevealed_of(turn))
       => (/\ guess' = clue
           /\ revealed' = revealed \cup {clue}
           /\ card_types[guess'] = turn
           /\ guesses_made' = 1)]_vars

C36_Witness ==
    /\ pc = "guess"
    /\ guess \in revealed
    /\ guess = clue
    /\ clue # "PASS"
    /\ turn = card_types[guess]
    /\ guesses_made = 1
    /\ ~(mode = 2 /\ turn = player_team)
    /\ Cardinality(revealed) >= 2


-----------------------------------------------------------------------------
(* The GUI against play_game (SpecGui) *)

\* C37: in the GUI at most one turn-processing callback (process_turn or
\* ai_guesser_turn) is registered or running for the current game at any
\* time, for every interleaving of the callbacks with the user's return to
\* the main menu and start of a new game.
C37_OneCallbackChain == pc = "gui" => pending(timers) <= 1

\* The guessing loop of play_game (549-614) in mode 1 from the game s.game
\* with s.events seen so far: the game and what was seen when the turn ends.
RECURSIVE guessing_loop(_, _, _, _)
guessing_loop(s, c, made, cap) ==
    Apply(LAMBDA word :
        Apply(LAMBDA b :
            IF guessing_continues(b, cap)
            THEN guessing_loop([game |-> b.game,
                                events |-> s.events \o Observed(s.game, b.game)],
                               c, b.guesses_made, cap)
            ELSE Apply(LAMBDA g2 :
                        [game |-> g2,
                         events |-> s.events \o Observed(s.game, g2)],
                       end_of_turn(b.game, b.turn_ended,
                                   b.turn_already_switched)),
            guess_body(s.game, word, made, cap)),
        make_guess(s.game, c.text, c.count))

\* One pass of the outer loop of play_game in mode 1 (501-614)
play_turn(s) ==
    Apply(LAMBDA c :
        IF c.text = "PASS"
        THEN Apply(LAMBDA g2 :
                     [game |-> g2, events |-> s.events \o Observed(s.game, g2)],
                   [s.game EXCEPT !.turn = other_team(s.game.turn)])
        ELSE IF 0 < c.count + 1
        THEN guessing_loop(s, c, 0, c.count + 1)
        ELSE s,
        generate_clue(s.game, s.game.turn))

\* play_game in mode 1 from its n-th turn on (501)
RECURSIVE play_game_from(_, _)
play_game_from(s, n) ==
    IF ~outer_loop_continues(s.game, n) THEN s
    ELSE Apply(LAMBDA s2 : play_game_from(s2, n + 1), play_turn(s))

\* The boards of the GUI's games as setup_board leaves them
GuiBoards ==
    {setup_board(NewGame, d.sample, d.first_team, d.order) : d \in GuiDeals}

\* What play_game shows in mode 1 on each of these boards, and the game it
\* ends with
play_game_shows ==
    [g0 \in GuiBoards |-> play_game_from([game |-> g0, events |-> << >>], 0)]

IsPrefix(s, t) == Len(s) <= Len(t) /\ SubSeq(t, 1, Len(s)) = s

\* The board of the game the GUI started last
started_board ==
    CHOOSE g0 \in GuiBoards : g0.words = words /\ g0.card_types = card_types

\* C38: for an AI-versus-AI game on the same board, what the GUI's
\* callbacks show (reveals, flips of turn, game_over and winner) is what
\* play_game shows, in the same order, up to play_game's turn ceiling: at
\* any time a prefix of it, and the whole of it once the game is over.
C38_GuiShowsWhatPlayGameShows ==
    (pc = "gui" /\ mode = 1)
        => LET shown == play_game_shows[started_board]
           IN  IF shown.game.game_over
               THEN /\ IsPrefix(trace, shown.events)
                    /\ game_over => trace = shown.events
               ELSE IsPrefix(trace, shown.events)
                    \/ IsPrefix(shown.events, trace)

=============================================================================
